---- MODULE Spec2Model ----
(***************************************************************************)
(* Model of the Markdown engine bundled in src/dist/index.js (marked       *)
(* v16.3.0): the extension registry (Marked.use), the pipeline             *)
(* orchestrator (Marked.parseMarkdown / Marked.onError), the lexer         *)
(* (Lexer.lex / blockTokens / inlineTokens with the Tokenizer rules they   *)
(* call) and the parser (Parser.parse / parseInline with the Renderer).    *)
(*                                                                         *)
(* A source text is a sequence of atoms.  An atom is a run of characters   *)
(* that every rule of the grammar treats as a whole: a line terminator, a  *)
(* thematic break, a bracketed label, the tail of a link definition, a     *)
(* marker character.  The rules below are the regular expressions of the   *)
(* rule tables read at this granularity.                                   *)
(***************************************************************************)
EXTENDS Integers, Sequences, FiniteSets, TLC

\* ------------------------------------------------------------------ bounds
MaxLines == 3      \* lines of a source text
MaxHookLines == 1  \* lines of a source text parsed with registered hooks
MaxUse == 1        \* calls of use() before the parse
MaxExt == 2        \* SpecExt: calls of use() that register a tokenizer
MaxExtLines == 2   \* SpecExt: lines of a source text
MaxTokens == 8     \* SpecExt: tokens a block loop that consumes nothing pushes
MaxCalls == 3      \* SpecAgain: parse calls made one after the other
MaxAgainLines == 1 \* SpecAgain: lines of the source text parsed repeatedly
MaxItems == 2      \* SpecList: items of a list
MaxItemLines == 3  \* SpecList: lines of the text of a list item
MaxOverrides == 3  \* SpecRenderer: overrides of one renderer method
MaxHooks == 3      \* SpecHooks: overrides of pass-through hooks
MaxChars == 4      \* SpecEscape: characters of the text of a token
MaxRefLines == 2   \* SpecRef: lines of a source text with emphasis in labels
MaxPubLines == 1   \* SpecPublish: lines of the Markdown file
MaxVersion == 2    \* SpecPublish: version number of the page the lookup finds
MaxBlocks == 2     \* SpecDialect: blocks of the source text
MaxTaskItems == 2  \* SpecTask: items of the list
MaxRenders == 2    \* SpecTask: calls of Parser.parse on the token list
MaxInline == 2     \* SpecLink: constructs of the inline text
MaxLabel == 2      \* SpecLink: constructs of the label of a link
MaxTop == 1        \* SpecWalk: top-level tokens of the tree handed to walkTokens
MaxCols == 2       \* SpecWalk: cells of a table row
MaxRows == 1       \* SpecWalk: body rows of a table
MaxWalkItems == 2  \* SpecWalk: items of a list

\* ------------------------------------------------------------------- atoms
NL == "\n"
CRLF == "\r\n"
HrAtom == "***"
ExtAtom == "@"
EmRefAtom == "[*c*]"
EmAtom == "*c*"
RefAtoms == {"[a]", "[A]", EmRefAtom}
DefTails == {": /1", ": /2 't'"}

\* the text between the brackets of a label atom
Label(a) ==
  CASE a = "[a]" -> "a" [] a = "[A]" -> "A" [] a = EmRefAtom -> EmAtom
    [] OTHER -> a

\* what is left of a label atom once its first character is consumed
AfterBracket(a) ==
  CASE a = "[a]" -> <<"a]">> [] a = "[A]" -> <<"A]">>
    [] a = EmRefAtom -> <<EmAtom, "]">> [] OTHER -> <<a>>

\* String.prototype.toLowerCase on the labels of the alphabet
ToLowerCase(l) == CASE l = "A" -> "a" [] OTHER -> l

\* destination and title captured by the def rule from a definition tail
DefHref(t) == CASE t = ": /1" -> "/1" [] t = ": /2 't'" -> "/2" [] OTHER -> ""
DefTitle(t) == CASE t = ": /2 't'" -> "t" [] OTHER -> "null"

\* the lines a source text is made of (each is followed by a terminator)
Lines ==
  { <<>>, <<HrAtom>>, <<"[a]">>, <<"[a]", ": /1">>, <<"[A]", ": /2 't'">>,
    <<ExtAtom>>, <<"[a]", ExtAtom>> }

RECURSIVE Flatten(_, _)
Flatten(ls, eol) ==
  IF ls = <<>> THEN <<>> ELSE Head(ls) \o <<eol>> \o Flatten(Tail(ls), eol)

SourcesOver(lines, n) ==
  { Flatten(ls, eol) : ls \in UNION { [1..k -> lines] : k \in 0..n },
                       eol \in {NL, CRLF} }

SourcesUpTo(n) == SourcesOver(Lines, n)

\* lines with a label that holds emphasis
RefLines ==
  { <<>>, <<"[a]">>, <<EmRefAtom>>, <<ExtAtom, EmRefAtom>>,
    <<"[a]", EmRefAtom>>, <<"[a]", ": /1">>, <<EmRefAtom, ": /1">> }

Sources == SourcesUpTo(MaxLines)
HookSources == SourcesUpTo(MaxHookLines)
ExtSources == SourcesUpTo(MaxExtLines)
RefSources == SourcesOver(RefLines, MaxRefLines)

\* m.carriageReturn replaced by "\n" (Lexer.lex)
ReplaceCarriageReturn(e) ==
  [i \in 1..Len(e) |-> IF e[i] = CRLF THEN NL ELSE e[i]]

\* ------------------------------------------------------------ string tools
Substring(e, n) == SubSeq(e, n + 1, Len(e))

RECURSIVE LeadingNL(_)
LeadingNL(e) ==
  IF e # <<>> /\ Head(e) = NL THEN 1 + LeadingNL(Tail(e)) ELSE 0

\* number of atoms before the first line terminator
RECURSIVE LineLen(_)
LineLen(e) ==
  IF e = <<>> \/ Head(e) = NL THEN 0 ELSE 1 + LineLen(Tail(e))

EndsWithNL(r) == r # <<>> /\ r[Len(r)] = NL

\* ------------------------------------------------------------------ tokens
NoToken ==
  [type |-> "none", raw |-> <<>>, text |-> <<>>, tokens |-> <<>>,
   tag |-> "", href |-> "", title |-> ""]

Token(type, raw, text) == [NoToken EXCEPT !.type = type, !.raw = raw, !.text = text]

Matched(t) == t.type # "none"

\* this.tokens.links, a set of entries [tag, href, title]: links[tag]
HasLink(links, tag) == \E l \in links : l.tag = tag
LinkOf(links, tag) == CHOOSE l \in links : l.tag = tag

\* --------------------------------------------------- Tokenizer, block rules
\* rules.block.newline  /^(?:[ \t]*(?:\n|$))+/
TokenizerSpace(e) ==
  IF LeadingNL(e) > 0
  THEN Token("space", SubSeq(e, 1, LeadingNL(e)), <<>>)
  ELSE NoToken

\* the hr pattern at the start of e:  hr (?:\n+|$)
HrAt(e) == e # <<>> /\ e[1] = HrAtom /\ (Len(e) = 1 \/ e[2] = NL)

\* raw is the match with its trailing newlines trimmed
TokenizerHr(e) ==
  IF HrAt(e) THEN Token("hr", <<HrAtom>>, <<>>) ELSE NoToken

\* rules.block.def: [label]: destination (title)? *(?:\n+|$)
TokenizerDef(e) ==
  IF /\ Len(e) >= 2
     /\ e[1] \in RefAtoms
     /\ e[2] \in DefTails
     /\ (Len(e) = 2 \/ e[3] = NL)
  THEN [Token("def", SubSeq(e, 1, 2 + LeadingNL(Substring(e, 2))), <<>>)
          EXCEPT !.tag = ToLowerCase(Label(e[1])),
                 !.href = DefHref(e[2]),
                 !.title = DefTitle(e[2])]
  ELSE NoToken

\* rules.block.paragraph: a line, then every following line that is neither
\* blank nor the start of an interrupting block
RECURSIVE ParagraphLen(_)
ParagraphLen(e) ==
  LET n == LineLen(e)
      rest == Substring(e, n)
  IN  IF /\ Len(rest) >= 2
         /\ rest[1] = NL
         /\ rest[2] # NL
         /\ ~HrAt(Tail(rest))
      THEN n + 1 + ParagraphLen(Tail(rest))
      ELSE n

TokenizerParagraph(e) ==
  IF e # <<>> /\ e[1] # NL
  THEN Token("paragraph", SubSeq(e, 1, ParagraphLen(e)), SubSeq(e, 1, ParagraphLen(e)))
  ELSE NoToken

\* rules.block.text  /^[^\n]+/
TokenizerText(e) ==
  IF e # <<>> /\ e[1] # NL
  THEN Token("text", SubSeq(e, 1, LineLen(e)), SubSeq(e, 1, LineLen(e)))
  ELSE NoToken

\* ------------------------------------------------- extensions (Marked.use)
\* The tokenizers extensions named "custom" contribute:
\*   "marker" claims the marker atom;
\*   "any"    claims the first atom of the text, whatever it is;
\*   "empty"  matches the empty string in front of a marker atom, so the
\*            token it returns has an empty raw.
ExtKinds == {"marker", "any", "empty"}

ExtensionTokenizer(k, e) ==
  IF e = <<>> THEN NoToken
  ELSE IF k = "marker" /\ e[1] = ExtAtom
  THEN Token("custom", <<ExtAtom>>, <<ExtAtom>>)
  ELSE IF k = "any"
  THEN Token("custom", <<e[1]>>, <<"any">>)
  ELSE IF k = "empty" /\ e[1] = ExtAtom
  THEN Token("custom", <<>>, <<>>)
  ELSE NoToken

\* this.options.extensions?.block?.some(s => (r = s.call({lexer: this}, e, t))
\*    ? (e = e.substring(r.raw.length), t.push(r), !0) : !1):
\* the token of the first tokenizer of the list that returns one
RECURSIVE ExtensionsFirst(_, _)
ExtensionsFirst(exts, e) ==
  IF exts = <<>> THEN NoToken
  ELSE IF Matched(ExtensionTokenizer(Head(exts), e))
  THEN ExtensionTokenizer(Head(exts), e)
  ELSE ExtensionsFirst(Tail(exts), e)

\* A tokenizer method overridden through use({tokenizer: ...}): the wrapper
\* calls the override and falls back to the built-in method only when the
\* override returns false.  The override registered here returns undefined
\* (no token) on text that starts with the marker atom and false otherwise.
TokenizerOverride(o, e, builtin) ==
  IF o.tokenizer /\ e # <<>> /\ e[1] = ExtAtom THEN NoToken ELSE builtin

\* ------------------------------------------------- Tokenizer, inline rules
InlineToken(type, raw, text) ==
  [type |-> type, raw |-> raw, text |-> text, href |-> "", title |-> "",
   tokens |-> <<>>]

NoInline == InlineToken("none", <<>>, <<>>)

EmToken ==
  [InlineToken("em", <<EmAtom>>, <<"c">>)
     EXCEPT !.tokens = <<InlineToken("text", <<"c">>, <<"c">>)>>]

\* outputLink: tokens: s.inlineTokens(a), the inline tokens of the link text
LabelTokens(a) ==
  IF a = EmRefAtom
  THEN <<EmToken>>
  ELSE <<InlineToken("text", <<Label(a)>>, <<Label(a)>>)>>

\* Tokenizer.reflink with outputLink: the label is looked up after
\* whitespace collapsing and lower-casing; an unknown label yields a text
\* token for the first character only
TokenizerReflink(e, links) ==
  IF e # <<>> /\ e[1] \in RefAtoms
  THEN LET key == ToLowerCase(Label(e[1]))
       IN  IF ~HasLink(links, key)
           THEN InlineToken("text", <<"[">>, <<"[">>)
           ELSE [InlineToken("link", <<e[1]>>, <<Label(e[1])>>)
                   EXCEPT !.href = LinkOf(links, key).href,
                          !.title = LinkOf(links, key).title,
                          !.tokens = LabelTokens(e[1])]
  ELSE NoInline

\* Tokenizer.emStrong on a single-asterisk delimiter run that a run of the
\* same length closes: an em token whose tokens are those of the text between
TokenizerEmStrong(e) ==
  IF e # <<>> /\ e[1] = EmAtom THEN EmToken ELSE NoInline

\* rules.inline.text: at least one character, then up to the next character
\* that can start another rule (here: an opening bracket or an asterisk)
RECURSIVE PlainLen(_)
PlainLen(e) ==
  IF e = <<>> \/ Head(e) \in RefAtoms \cup {EmAtom} THEN 0
  ELSE 1 + PlainLen(Tail(e))

TokenizerInlineText(e) ==
  IF e = <<>> THEN NoInline
  ELSE LET n == 1 + PlainLen(Tail(e))
       IN  InlineToken("text", SubSeq(e, 1, n), SubSeq(e, 1, n))

InlineOverride(o, e, builtin) ==
  IF o.tokenizer /\ e # <<>> /\ e[1] = ExtAtom THEN NoInline ELSE builtin

\* (variant: a text token is pushed, never merged)
PushNoMerge(t, tok) == Append(t, tok)

\* push an inline token, or merge a text token into a preceding text token
PushOrMergeText(t, tok) ==
  LET n == Len(t)
  IN  IF tok.type = "text" /\ n > 0 /\ t[n].type = "text"
      THEN [t EXCEPT ![n].raw = @ \o tok.raw, ![n].text = @ \o tok.text]
      ELSE Append(t, tok)

\* the rest of the text once the token is consumed: e.substring(raw.length)
InlineRest(e, tok) ==
  IF tok.raw = <<"[">> THEN AfterBracket(e[1]) \o Tail(e)
  ELSE Substring(e, Len(tok.raw))

\* this.options.extensions?.inline?.some(...): the token of the first
\* inline tokenizer of the list that returns one
InlineExtensionsFirst(exts, e) ==
  LET r == ExtensionsFirst(exts, e)
  IN  IF Matched(r) THEN InlineToken("custom", r.raw, r.text) ELSE NoInline

\* Lexer.inlineTokens: the loop over the text of one leaf block.  The rules
\* for escape, tag, link, codespan, br, del, autolink and url match no text
\* of the alphabet.
RECURSIVE InlineTokens(_, _, _, _)
InlineTokens(e, t, links, o) ==
  IF e = <<>> THEN [tokens |-> t, exhausted |-> FALSE]
  ELSE LET ext == InlineExtensionsFirst(o.inline, e)
           reflink == TokenizerReflink(e, links)
           em == TokenizerEmStrong(e)
           text == InlineOverride(o, e, TokenizerInlineText(e))
       IN  IF ext.type # "none"
           THEN InlineTokens(InlineRest(e, ext), Append(t, ext), links, o)
           ELSE IF reflink.type # "none"
           THEN InlineTokens(InlineRest(e, reflink), PushOrMergeText(t, reflink),
                             links, o)
           ELSE IF em.type # "none"
           THEN InlineTokens(InlineRest(e, em), Append(t, em),
                             links, o)
           ELSE IF text.type # "none"
           THEN InlineTokens(InlineRest(e, text), PushOrMergeText(t, text),
                             links, o)
           ELSE [tokens |-> t, exhausted |-> TRUE]

\* (variant: the guard throws whatever the silent option says)
InfiniteLoopGuardAlwaysThrow(o) == "throw"

\* the guard at the end of the loops of blockTokens and inlineTokens, reached
\* with text left and no rule matching: log and leave the loop, or throw
InfiniteLoopGuard(o) == IF o.silent THEN "break" ELSE "throw"

\* ------------------------------------------------------------------- Lexer
\* new Lexer(options): the fields of the constructor
NewLexer(o) ==
  [options |-> o, src |-> <<>>, tokens |-> <<>>, links |-> {},
   inlineQueue |-> <<>>]

\* (variant: the text is tokenized at once, with the links known so far)
LexerInlineEager(lx, text) ==
  [lx EXCEPT !.inlineQueue =
     Append(@, [src |-> <<>>,
                tokens |-> InlineTokens(text, <<>>, lx.links, lx.options).tokens,
                tok |-> Len(lx.tokens) + 1])]

\* Lexer.inline: the text of a leaf block is queued together with the (still
\* empty) token list of the block; tok is the block token that owns the list
LexerInline(lx, text) ==
  [lx EXCEPT !.inlineQueue =
     Append(@, [src |-> text, tokens |-> <<>>, tok |-> Len(lx.tokens) + 1])]

Push(lx, t) == [lx EXCEPT !.tokens = Append(@, t)]

Consume(lx, t) == [lx EXCEPT !.src = Substring(@, Len(t.raw))]

\* s.raw += (s.raw.endsWith("\n") ? "" : "\n") + r.raw; s.text += "\n" + r.raw;
\* this.inlineQueue.at(-1).src = s.text
MergeIntoLast(lx, r, addText) ==
  LET n == Len(lx.tokens)
      s == lx.tokens[n]
      raw == s.raw \o (IF EndsWithNL(s.raw) THEN <<>> ELSE <<NL>>) \o r.raw
      text == s.text \o <<NL>> \o addText
      q == Len(lx.inlineQueue)
  IN  [lx EXCEPT !.tokens[n].raw = raw,
                 !.tokens[n].text = text,
                 !.inlineQueue = IF q = 0 THEN @
                                 ELSE [@ EXCEPT ![q].src = text]]

\* the space branch of blockTokens
SpaceBranch(lx, r) ==
  LET n == Len(lx.tokens)
  IN  IF Len(r.raw) = 1 /\ n > 0
      THEN [lx EXCEPT !.tokens[n].raw = @ \o <<NL>>]
      ELSE Push(lx, r)

\* (variant: a repeated definition replaces the stored one)
DefBranchOverwrite(lx, r) ==
  LET n == Len(lx.tokens)
  IN  IF n > 0 /\ lx.tokens[n].type \in {"paragraph", "text"}
      THEN MergeIntoLast(lx, r, r.raw)
      ELSE Push([lx EXCEPT !.links = {l \in @ : l.tag # r.tag}
                                       \cup {[tag |-> r.tag, href |-> r.href,
                                               title |-> r.title]}], r)

\* the def branch of blockTokens: merged into a preceding paragraph or text
\* token, else stored and pushed unless the label is already defined
DefBranch(lx, r) ==
  LET n == Len(lx.tokens)
  IN  IF n > 0 /\ lx.tokens[n].type \in {"paragraph", "text"}
      THEN MergeIntoLast(lx, r, r.raw)
      ELSE IF ~HasLink(lx.links, r.tag)
      THEN Push([lx EXCEPT !.links = @ \cup {[tag |-> r.tag, href |-> r.href,
                                              title |-> r.title]}], r)
      ELSE lx

\* the text branch of blockTokens
TextBranch(lx, r) ==
  LET n == Len(lx.tokens)
  IN  IF n > 0 /\ lx.tokens[n].type = "text"
      THEN MergeIntoLast([lx EXCEPT !.inlineQueue =
                             SubSeq(@, 1, Len(@) - 1)], r, r.text)
      ELSE Push(lx, r)

\* One iteration of the loop of Lexer.blockTokens on a non-empty rest, at
\* the top level (state.top is true, lazy continuation flag false).  The
\* rules for code, fences, heading, blockquote, list, html, table and
\* lheading match no text of the alphabet.
BlockTokensIteration(lx) ==
  LET e == lx.src
      o == lx.options
      ext == ExtensionsFirst(o.block, e)
      space == TokenizerSpace(e)
      hr == TokenizerHr(e)
      def == TokenizerDef(e)
      paragraph == TokenizerOverride(o, e, TokenizerParagraph(e))
      text == TokenizerOverride(o, e, TokenizerText(e))
  IN  IF Matched(ext)
      THEN [lexer |-> Push(Consume(lx, ext), ext), matched |-> TRUE]
      ELSE IF Matched(space)
      THEN [lexer |-> SpaceBranch(Consume(lx, space), space), matched |-> TRUE]
      ELSE IF Matched(hr)
      THEN [lexer |-> Push(Consume(lx, hr), hr), matched |-> TRUE]
      ELSE IF Matched(def)
      THEN [lexer |-> DefBranch(Consume(lx, def), def), matched |-> TRUE]
      ELSE IF Matched(paragraph)
      THEN [lexer |-> Push(LexerInline(Consume(lx, paragraph), paragraph.text),
                           paragraph),
            matched |-> TRUE]
      ELSE IF Matched(text)
      THEN [lexer |-> TextBranch(LexerInline(Consume(lx, text), text.text), text),
            matched |-> TRUE]
      ELSE [lexer |-> lx, matched |-> FALSE]

\* ------------------------------------------------------ Renderer and Parser
\* escape (w): the entity for each of & < > " ' in the text of the alphabet
Escape(a) == CASE a = ": /2 't'" -> ": /2 &#39;t&#39;" [] OTHER -> a

EscapeAll(text) == [i \in 1..Len(text) |-> Escape(text[i])]

\* Renderer.link (the hrefs of the alphabet are left as they are by cleanUrl)
RendererLink(tok, inner) ==
  <<"<a href=\"", tok.href, "\"">>
    \o (IF tok.title # "null" THEN <<" title=\"", Escape(tok.title), "\"">> ELSE <<>>)
    \o <<">">> \o inner \o <<"</a>">>

\* Parser.parseInline on the token kinds the inline rules above produce
RECURSIVE ParseInline(_)
ParseInline(t) ==
  IF t = <<>> THEN <<>>
  ELSE LET tok == Head(t)
       IN  (IF tok.type = "link"
            THEN RendererLink(tok, ParseInline(tok.tokens))
            ELSE IF tok.type = "em"
            THEN <<"<em>">> \o ParseInline(tok.tokens) \o <<"</em>">>
            ELSE EscapeAll(tok.text))
           \o ParseInline(Tail(t))

RendererParagraph(tok) == <<"<p>">> \o ParseInline(tok.tokens) \o <<"</p>\n">>

\* (variant: the output accumulated so far is returned)
UnknownTokenOutputSoFar(n) == n

\* what the silent branch of the default case of Parser.parse returns
UnknownTokenOutput(n) == <<>>

\* Parser.parse: the loop over the top-level tokens.  found is FALSE when
\* the default case was reached (no handler for the token kind).
RECURSIVE ParserParse(_, _, _)
ParserParse(t, n, o) ==
  IF t = <<>> THEN [out |-> n, found |-> TRUE]
  ELSE LET tok == Head(t)
       IN  IF o.renderer /\ tok.type = "custom"
           THEN ParserParse(Tail(t), n \o <<"<custom>">>, o)
           ELSE IF tok.type \in {"space", "def"}
           THEN ParserParse(Tail(t), n, o)
           ELSE IF tok.type = "hr"
           THEN ParserParse(Tail(t), n \o <<"<hr>\n">>, o)
           ELSE IF tok.type \in {"paragraph", "text"}
           THEN ParserParse(Tail(t), n \o RendererParagraph(tok), o)
           ELSE [out |-> UnknownTokenOutput(n), found |-> FALSE]

\* number of tokens Marked.walkTokens calls the callback on
RECURSIVE CountInline(_)
CountInline(t) ==
  IF t = <<>> THEN 0
  ELSE 1 + CountInline(Head(t).tokens) + CountInline(Tail(t))

RECURSIVE CountTokens(_)
CountTokens(t) ==
  IF t = <<>> THEN 0
  ELSE 1 + CountInline(Head(t).tokens) + CountTokens(Tail(t))

\* ---------------------------------------------------------------- Marked
VARIABLES
  defaults,   \* this.defaults of the Marked instance
  uses,       \* calls of use() made
  useResult,  \* how the last call of use() ended: "none", "ok", "throw"
  pc,         \* position of the parse call
  source,     \* first argument of the call: [kind, text]
  options,    \* the merged options of the call (s in parseMarkdown)
  lexer,      \* the Lexer of the call
  qi,         \* index of the inline queue entry lex() handles next
  value,      \* what the last stage handed on: "value" or "promise"
  out,        \* the output string of Parser.parse
  pending,    \* deferred value returned by a hook and not settled yet:
              \*   "no", "resolve" (it will resolve), "reject" (it will reject)
  result,     \* what the parse call gave its caller
  error,      \* the error raised in the call, "none" if none
  logged,     \* console.error calls
  started,    \* the stages begun, in order
  early,      \* a stage began while the previous stage's deferred value
              \*   was still unsettled
  registry,   \* the fields parse calls write in the objects the defaults
              \*   hold: the Hooks, Tokenizer and Renderer instances
  calls,      \* SpecTwo: the two parse calls in flight on one instance
  hooksObj,   \* SpecTwo: the Hooks instance of the defaults
  hist,       \* SpecAgain: the source texts of the calls that have returned
  first,      \* SpecAgain: the first call that returned, with what it gave
  lpc,        \* SpecList: position in the tokenizing and rendering of a list
  listTok,    \* SpecList: the list token Tokenizer.list builds
  listU,      \* SpecList: index u of the item whose tokens are built next
  listOut,    \* SpecList: what Renderer.listitem returns for each item
  epc,        \* SpecEscape: position in the rendering of one token
  escTok,     \* SpecEscape: the token handed to the Renderer
  escOut,     \* SpecEscape: what the Renderer method returns
  rchain,     \* SpecRenderer: the hr method of the Renderer of the defaults:
              \*   the overrides its wrappers hold, the outermost first
  rpc,        \* SpecRenderer: position of the call of the method
  rpos,       \* SpecRenderer: the wrapper the call is in
  rcalls,     \* SpecRenderer: the implementations called, in order
  rres,       \* SpecRenderer: what the call of the method returned
  hchain,     \* SpecHooks: the pass-through methods of the Hooks of the
              \*   defaults: the overrides their wrappers hold
  hasync,     \* SpecHooks: this.defaults.async
  hn,         \* SpecHooks: the hooks registered
  hpc,        \* SpecHooks: position of the stage
  hname,      \* SpecHooks: the hook of the stage
  hpos,       \* SpecHooks: the wrapper the call is in
  hval,       \* SpecHooks: the value handed to the next function
  hcalls,     \* SpecHooks: the overrides called, with what each received
  hres,       \* SpecHooks: what the stage gives
  wpc,        \* SpecWalk: position of the call of walkTokens
  wtree,      \* SpecWalk: the token list handed to walkTokens
  wagenda,    \* SpecWalk: the tokens the pending loops of walkTokens still
              \*   have to handle, in the order they will handle them
  wvisited,   \* SpecWalk: the tokens the callback was called with, in order
  ppc,        \* SpecPublish: position of the run of the workflow
  pfs,        \* SpecPublish: the file at file_path: [exists, content]
  pparsed,    \* SpecPublish: marked.parse was called
  phtml,      \* SpecPublish: the constant html of publishDocs
  ppage,      \* SpecPublish: the constant existingPage of publishDocs
  premote,    \* SpecPublish: the remote calls made, in order
  pexit,      \* SpecPublish: exit code of the process, "running" before
  dpc,        \* SpecDialect: position of the Lexer
  dopt,       \* SpecDialect: the options pedantic, gfm and breaks
  drules,     \* SpecDialect: this.tokenizer.rules: the tables selected
  dsrc,       \* SpecDialect: the blocks of the source text
  dtokens,    \* SpecDialect: the tokens of the Lexer
  tpc,        \* SpecTask: position: the list is lexed, then rendered
  ttok,       \* SpecTask: the list token
  ttok0,      \* SpecTask: the list token as the Lexer returned it
  touts,      \* SpecTask: what each call of Parser.parse returned
  kpc,        \* SpecLink: position of Lexer.inlineTokens
  ksrc,       \* SpecLink: the constructs of the text still to tokenize
  klabel,     \* SpecLink: the constructs of the label still to tokenize
  kdepth,     \* SpecLink: 1 while inlineTokens runs on the label of a link
              \*   of the text, 0 otherwise
  kinLink,    \* SpecLink: this.state.inLink
  kchildren,  \* SpecLink: the tokens made of the label so far
  ktokens     \* SpecLink: the tokens made of the text so far

vars ==
  <<defaults, uses, useResult, pc, source, options, lexer, qi, value, out,
    pending, result, error, logged, started, early, registry>>

\* the variables of the other specifications of this module
twoVars == <<calls, hooksObj>>
againVars == <<hist, first>>
listVars == <<lpc, listTok, listU, listOut>>
escVars == <<epc, escTok, escOut>>
rendVars == <<rchain, rpc, rpos, rcalls, rres>>
hookVars == <<hchain, hasync, hn, hpc, hname, hpos, hval, hcalls, hres>>
walkVars == <<wpc, wtree, wagenda, wvisited>>
pubVars == <<ppc, pfs, pparsed, phtml, ppage, premote, pexit>>
dialVars == <<dpc, dopt, drules, dsrc, dtokens>>
taskVars == <<tpc, ttok, ttok0, touts>>
linkVars == <<kpc, ksrc, klabel, kdepth, kinLink, kchildren, ktokens>>
aux ==
  <<twoVars, againVars, listVars, escVars, rendVars, hookVars, walkVars,
    pubVars, dialVars, taskVars, linkVars>>
notTwo ==
  <<vars, againVars, listVars, escVars, rendVars, hookVars, walkVars,
    pubVars, dialVars, taskVars, linkVars>>
notAgain ==
  <<twoVars, listVars, escVars, rendVars, hookVars, walkVars, pubVars,
    dialVars, taskVars, linkVars>>
notList ==
  <<vars, twoVars, againVars, escVars, rendVars, hookVars, walkVars,
    pubVars, dialVars, taskVars, linkVars>>
notEsc ==
  <<vars, twoVars, againVars, listVars, rendVars, hookVars, walkVars,
    pubVars, dialVars, taskVars, linkVars>>
notRend ==
  <<vars, twoVars, againVars, listVars, escVars, hookVars, walkVars,
    pubVars, dialVars, taskVars, linkVars>>
notHook ==
  <<vars, twoVars, againVars, listVars, escVars, rendVars, walkVars,
    pubVars, dialVars, taskVars, linkVars>>
notWalk ==
  <<vars, twoVars, againVars, listVars, escVars, rendVars, hookVars,
    pubVars, dialVars, taskVars, linkVars>>
notPub ==
  <<vars, twoVars, againVars, listVars, escVars, rendVars, hookVars,
    walkVars, dialVars, taskVars, linkVars>>
notDial ==
  <<vars, twoVars, againVars, listVars, escVars, rendVars, hookVars,
    walkVars, pubVars, taskVars, linkVars>>
notTask ==
  <<vars, twoVars, againVars, listVars, escVars, rendVars, hookVars,
    walkVars, pubVars, dialVars, linkVars>>
notLink ==
  <<vars, twoVars, againVars, listVars, escVars, rendVars, hookVars,
    walkVars, pubVars, dialVars, taskVars>>

HookNames == {"preprocess", "processAllTokens", "postprocess"}
StageHooks == HookNames \cup {"walkTokens"}
Kinds == {"sync", "deferred", "reject", "throw"}

\* getDefaults (L), with the parts of the extension registry the model has
GetDefaults ==
  [async |-> FALSE, tokenizer |-> FALSE, block |-> <<>>, inline |-> <<>>,
   renderer |-> FALSE,
   hooks |-> [h \in StageHooks |-> <<>>]]

\* the descriptors passed to use(): an async flag together with one part
Descriptors ==
  [async : BOOLEAN,
   part : {"options", "tokenizer", "block", "renderer",
           "badRenderer", "badTokenizer", "badHook"},
   kind : {"-"}]
  \cup [async : BOOLEAN, part : StageHooks, kind : Kinds]

\* a renderer method, tokenizer method or hook the descriptor names does not
\* exist in Renderer, Tokenizer or Hooks
NamesMissingMethod(d) == d.part \in {"badRenderer", "badTokenizer", "badHook"}

\* (variant: only the renderer methods are validated)
UseThrowsRendererOnly(d) == d.part = "badRenderer"

\* use() throws on the descriptor
UseThrows(d) == NamesMissingMethod(d)

\* the tokenizer of the extension a descriptor holds
ExtKindOf(d) == IF d.kind = "-" THEN "marker" ELSE d.kind

\* (variant: a tokenizer registered later goes behind the earlier ones)
UnshiftBehind(list, x) == list \o <<x>>

\* s ? s.unshift(i.tokenizer) : t[i.level] = [i.tokenizer]
Unshift(list, x) == <<x>> \o list

\* this.defaults = {...this.defaults, ...r}
UseMerge(df, d) ==
  [async |-> df.async \/ d.async,
   tokenizer |-> df.tokenizer \/ d.part = "tokenizer",
   block |-> IF d.part = "block" THEN Unshift(df.block, ExtKindOf(d))
             ELSE df.block,
   inline |-> IF d.part = "inline" THEN Unshift(df.inline, ExtKindOf(d))
              ELSE df.inline,
   renderer |-> df.renderer \/ d.part = "renderer",
   hooks |-> IF d.part \in StageHooks
             THEN [df.hooks EXCEPT ![d.part] = <<d.kind>> \o @]
             ELSE df.hooks]

\* s.hooks is an object once a pass-through hook was registered
HasHooks(o) == \E h \in HookNames : o.hooks[h] # <<>>
HasWalkTokens(o) == o.hooks["walkTokens"] # <<>>

\* the options a call with no argument merges from the initial defaults
InitialOptions == GetDefaults @@ [silent |-> FALSE]

NoResult == [kind |-> "none", state |-> "-", val |-> "-"]

\* ------------------------------------------------- the publishing workflow
\* One run of the script: publishDocs() and the catch handler behind it.
\* The file system and the answers of the remote service are the
\* surroundings of the run.
NoFile == [exists |-> FALSE, content |-> <<>>]
FileSystems ==
  {NoFile} \cup {[exists |-> TRUE, content |-> c] : c \in SourcesUpTo(MaxPubLines)}

\* what getPageByTitle returns: data.results[0] with its id and
\* version.number (expand=version), or null
NoPage == [found |-> FALSE, id |-> "-", version |-> 0]
PageIds == {"p1", "p2"}
Pages ==
  {[found |-> TRUE, id |-> i, version |-> v] : i \in PageIds, v \in 1..MaxVersion}

\* The objects of the defaults that a parse call reaches through its merged
\* options s = {...this.defaults, ...r}, a shallow copy: the Hooks instance
\* (fields options, block), the Tokenizer instance (options, lexer) and the
\* Renderer instance (options, parser).  "absent": use() has not made the
\* object; "O": the module defaults; "defaults": this.defaults; "call": the
\* object s, the Lexer or the Parser of the parse call.
NoRegistry ==
  [hooks |-> [options |-> "absent", block |-> "absent"],
   tokenizer |-> [options |-> "absent", lexer |-> "absent"],
   renderer |-> [options |-> "absent", parser |-> "absent"]]

\* use() makes the object when the defaults have none:
\*   this.defaults.hooks || new S, this.defaults.tokenizer || new y(this.defaults)
UseRegistry(rg, d) ==
  [rg EXCEPT
     !.hooks = IF d.part \in HookNames /\ @.options = "absent"
               THEN [options |-> "O", block |-> "undefined"] ELSE @,
     !.tokenizer = IF d.part = "tokenizer" /\ @.options = "absent"
                   THEN [options |-> "defaults", lexer |-> "undefined"] ELSE @]

\* s.hooks && (s.hooks.options = s, s.hooks.block = e)
ParseCallRegistry(rg) ==
  [rg EXCEPT !.hooks = IF @.options = "absent" THEN @
                       ELSE [options |-> "call", block |-> "true"]]

\* Lexer.constructor: this.tokenizer = this.options.tokenizer,
\* this.tokenizer.options = this.options, this.tokenizer.lexer = this
LexerRegistry(rg) ==
  [rg EXCEPT !.tokenizer = IF @.options = "absent" THEN @
                           ELSE [options |-> "call", lexer |-> "call"]]

\* Parser.constructor: this.renderer = this.options.renderer,
\* this.renderer.options = this.options, this.renderer.parser = this
ParserRegistry(rg) ==
  [rg EXCEPT !.renderer = IF @.options = "absent" THEN @
                          ELSE [options |-> "call", parser |-> "call"]]

\* the parse calls of SpecTwo, and a call not made yet
CallIds == {"call1", "call2"}
NoCall == [pc |-> "idle", block |-> "undefined", lexer |-> "none",
           parser |-> "none", seen |-> <<>>]

\* SpecHooks: the value a stage hands to its hook; from is the override
\* that returned the value, 0 for the stage
StageInput == [from |-> 0, deferred |-> FALSE]

\* SpecAgain: no call has returned yet
NoFirst ==
  [source |-> [kind |-> "none", text |-> <<>>], silent |-> FALSE,
   result |-> NoResult, out |-> <<>>, error |-> "none"]

Init ==
  /\ defaults = GetDefaults
  /\ uses = 0
  /\ useResult = "none"
  /\ pc = "setup"
  /\ source = [kind |-> "none", text |-> <<>>]
  /\ options = InitialOptions
  /\ lexer = NewLexer(InitialOptions)
  /\ qi = 0
  /\ value = "value"
  /\ out = <<>>
  /\ pending = "no"
  /\ result = NoResult
  /\ error = "none"
  /\ logged = 0
  /\ started = <<>>
  /\ early = FALSE
  /\ registry = NoRegistry
  /\ calls = [i \in CallIds |-> NoCall]
  /\ hooksObj = NoRegistry.hooks
  /\ hist = <<>>
  /\ first = NoFirst
  /\ lpc = "setup"
  /\ listTok = [loose |-> FALSE, items |-> <<>>]
  /\ listU = 1
  /\ listOut = <<>>
  /\ epc = "setup"
  /\ escTok = [type |-> "none", text |-> <<>>, escaped |-> FALSE]
  /\ escOut = <<>>
  /\ rchain = <<>>
  /\ rpc = "setup"
  /\ rpos = 1
  /\ rcalls = <<>>
  /\ rres = ""
  /\ hchain = [h \in HookNames |-> <<>>]
  /\ hasync = FALSE
  /\ hn = 0
  /\ hpc = "setup"
  /\ hname = "preprocess"
  /\ hpos = 1
  /\ hval = StageInput
  /\ hcalls = <<>>
  /\ hres = StageInput
  /\ wpc = "setup"
  /\ wtree = <<>>
  /\ wagenda = <<>>
  /\ wvisited = <<>>
  /\ ppc = "start"
  /\ pfs = NoFile
  /\ pparsed = FALSE
  /\ phtml = <<>>
  /\ ppage = NoPage
  /\ premote = <<>>
  /\ pexit = "running"
  /\ dpc = "setup"
  /\ dopt = [pedantic |-> FALSE, gfm |-> TRUE, breaks |-> FALSE]
  /\ drules = [block |-> "normal", inline |-> "normal"]
  /\ dsrc = <<>>
  /\ dtokens = <<>>
  /\ tpc = "setup"
  /\ ttok = [loose |-> FALSE, items |-> <<>>]
  /\ ttok0 = [loose |-> FALSE, items |-> <<>>]
  /\ touts = <<>>
  /\ kpc = "setup"
  /\ ksrc = <<>>
  /\ klabel = <<>>
  /\ kdepth = 0
  /\ kinLink = FALSE
  /\ kchildren = <<>>
  /\ ktokens = <<>>

\* Marked.use with one descriptor, at most max calls
UseUpTo(d, max) ==
  /\ pc = "setup"
  /\ uses < max
  /\ uses' = uses + 1
  /\ IF UseThrows(d)
     THEN useResult' = "throw" /\ UNCHANGED <<defaults, registry>>
     ELSE /\ useResult' = "ok"
          /\ defaults' = UseMerge(defaults, d)
          /\ registry' = UseRegistry(registry, d)
  /\ UNCHANGED <<pc, source, options, lexer, qi, value, out, pending, result,
                 error, logged, started, early>>
  /\ UNCHANGED aux

Use(d) == UseUpTo(d, MaxUse)

\* Marked.onError(silent, async) applied to an error
OnError(silent, async) ==
  IF silent
  THEN IF async
       THEN [kind |-> "promise", state |-> "resolved", val |-> "errorHtml"]
       ELSE [kind |-> "return", state |-> "-", val |-> "errorHtml"]
  ELSE IF async
       THEN [kind |-> "promise", state |-> "rejected", val |-> "error"]
       ELSE [kind |-> "throw", state |-> "-", val |-> "error"]

\* the catch clause of the synchronous branch, and the .catch(o) of the
\* promise chain of the asynchronous one
Fail(e) ==
  /\ pc' = "done"
  /\ error' = e
  /\ result' = OnError(options.silent, options.async)

\* the checks parseMarkdown makes before any stage
AsyncMismatch(df, optAsync) == df.async /\ optAsync = "false"

\* (variant: only undefined and null are refused)
InvalidInputNullOnly(kind) == kind \in {"undefined", "null"}

InvalidInput(kind) == kind # "string"

InputKinds == {"string", "undefined", "null", "number"}

\* the call marked.parse(n, r) up to the first stage
ParseCall(kind, text, optAsync, optSilent) ==
  /\ pc = "setup"
  /\ kind = "string" \/ text = <<>>
  /\ (HasHooks(defaults) \/ HasWalkTokens(defaults))
        => text \in HookSources
  /\ source' = [kind |-> kind, text |-> text]
  /\ options' = [defaults EXCEPT !.async =
                    IF optAsync = "unset" THEN defaults.async
                    ELSE optAsync = "true"]
                @@ [silent |-> optSilent]
  /\ IF AsyncMismatch(defaults, optAsync)
     THEN /\ pc' = "done"
          /\ error' = "async"
          /\ result' = OnError(optSilent, FALSE)
          /\ UNCHANGED registry
     ELSE IF InvalidInput(kind)
     THEN /\ pc' = "done"
          /\ error' = "input"
          /\ result' = OnError(optSilent, options'.async)
          /\ UNCHANGED registry
     ELSE /\ pc' = "preprocess"
          /\ error' = "none"
          /\ result' = NoResult
          /\ registry' = ParseCallRegistry(registry)
  /\ UNCHANGED <<defaults, uses, useResult, lexer, qi, value, out, pending,
                 logged, started, early>>
  /\ UNCHANGED aux

\* ---------------------------------------------------------------- hooks
ChainHas(chain, k) == \E i \in 1..Len(chain) : chain[i] = k

\* What a call of a hook method gives, from the behaviours of the functions
\* registered for it (latest first): "value", a deferred value that will
\* "resolve" or "reject", or "throw".  use() wraps a pass-through hook as
\*   p => u.call(i, a.call(i, p))
\* and, when this.defaults.async is set, as
\*   p => Promise.resolve(a.call(i, p)).then(f => u.call(i, f));
\* a walkTokens callback as  o => [s.call(this, o)].concat(i.call(this, o)).
ChainOutcome(chain, wrapAsync) ==
  IF chain = <<>> THEN "value"
  ELSE IF wrapAsync
  THEN IF chain[1] = "throw" THEN "throw"
       ELSE IF ChainHas(chain, "reject") \/ ChainHas(chain, "throw")
       THEN "reject"
       ELSE "resolve"
  ELSE IF ChainHas(chain, "throw") THEN "throw"
  ELSE IF ChainHas(chain, "reject") THEN "reject"
  ELSE IF ChainHas(chain, "deferred") THEN "resolve"
  ELSE "value"

\* a stage of the promise chain runs once the previous one has settled; the
\* synchronous branch calls the stages one after the other
Ready == options.async => pending = "no"

Begin(stage) ==
  /\ started' = Append(started, stage)
  /\ early' = (early \/ pending # "no")

\* s.hooks ? s.hooks[h](x) : x
PassThroughStage(h, next) ==
  /\ pc = h
  /\ Ready
  /\ IF ~HasHooks(options)
     THEN /\ pc' = next
          /\ UNCHANGED <<value, pending, result, error, started, early>>
     ELSE LET oc == ChainOutcome(options.hooks[h], defaults.async)
          IN  /\ Begin(h)
              /\ IF oc = "throw"
                 THEN /\ IF options.async /\ h = "preprocess"
                         THEN /\ pc' = "done"
                              /\ error' = "hook"
                              /\ result' = [kind |-> "throw", state |-> "-",
                                            val |-> "error"]
                         ELSE Fail("hook")
                      /\ UNCHANGED <<value, pending>>
                 ELSE /\ pc' = next
                      /\ pending' = IF oc = "value" THEN pending ELSE oc
                      /\ value' = IF oc = "value" \/ options.async
                                  THEN value ELSE "promise"
                      /\ UNCHANGED <<result, error>>
  /\ UNCHANGED <<defaults, uses, useResult, source, options, lexer, qi, out,
                 logged, registry>>
  /\ UNCHANGED aux

Preprocess == PassThroughStage("preprocess", "lex")
ProcessAllTokens == PassThroughStage("processAllTokens", "walkTokens")
Postprocess == PassThroughStage("postprocess", "return")

\* a deferred value returned by a hook settles
Settle ==
  /\ pending # "no"
  /\ pending' = "no"
  /\ IF options.async /\ pc # "done" /\ pending = "reject"
     THEN Fail("rejected")
     ELSE UNCHANGED <<pc, error, result>>
  /\ UNCHANGED <<defaults, uses, useResult, source, options, lexer, qi, value,
                 out, logged, started, early, registry>>
  /\ UNCHANGED aux

\* (variant: the Lexer of the call starts with the links of the last one)
LexSharedLinks ==
  /\ pc = "lex"
  /\ Ready
  /\ Begin("blockTokens")
  /\ registry' = LexerRegistry(registry)
  /\ IF value = "promise"
     THEN Fail("typeError") /\ UNCHANGED lexer
     ELSE /\ lexer' = [NewLexer(options) EXCEPT
                         !.src = ReplaceCarriageReturn(source.text),
                         !.links = lexer.links]
          /\ pc' = "blockTokens"
          /\ UNCHANGED <<error, result>>
  /\ UNCHANGED <<defaults, uses, useResult, source, options, qi, value, out,
                 pending, logged>>
  /\ UNCHANGED aux

\* Lexer.lex up to the call of blockTokens
Lex ==
  /\ pc = "lex"
  /\ Ready
  /\ Begin("blockTokens")
  /\ registry' = LexerRegistry(registry)
  /\ IF value = "promise"
     THEN Fail("typeError") /\ UNCHANGED lexer
     ELSE /\ lexer' = [NewLexer(options) EXCEPT
                         !.src = ReplaceCarriageReturn(source.text)]
          /\ pc' = "blockTokens"
          /\ UNCHANGED <<error, result>>
  /\ UNCHANGED <<defaults, uses, useResult, source, options, qi, value, out,
                 pending, logged>>
  /\ UNCHANGED aux

\* one iteration of the loop of blockTokens, or its end
BlockTokens ==
  /\ pc = "blockTokens"
  /\ Len(lexer.tokens) < MaxTokens
  /\ LET r == BlockTokensIteration(lexer)
     IN  IF lexer.src # <<>> /\ r.matched
         THEN /\ lexer' = r.lexer
              /\ UNCHANGED <<pc, qi, error, result, logged, started, early>>
         ELSE IF lexer.src # <<>> /\ InfiniteLoopGuard(lexer.options) = "throw"
         THEN /\ Fail("infiniteLoop")
              /\ UNCHANGED <<lexer, qi, logged, started, early>>
         ELSE /\ pc' = "inlineTokens"
              /\ qi' = 1
              /\ logged' = IF lexer.src # <<>> THEN logged + 1 ELSE logged
              /\ Begin("inlineTokens")
              /\ UNCHANGED <<lexer, error, result>>
  /\ UNCHANGED <<defaults, uses, useResult, source, options, value, out,
                 pending, registry>>
  /\ UNCHANGED aux

\* one entry of the inline queue, or the end of lex()
InlineQueue ==
  /\ pc = "inlineTokens"
  /\ IF qi > Len(lexer.inlineQueue)
     THEN /\ lexer' = [lexer EXCEPT !.inlineQueue = <<>>]
          /\ pc' = "processAllTokens"
          /\ UNCHANGED <<qi, error, result, logged>>
     ELSE LET n == lexer.inlineQueue[qi]
              r == InlineTokens(n.src, n.tokens, lexer.links, lexer.options)
          IN  IF r.exhausted /\ InfiniteLoopGuard(lexer.options) = "throw"
              THEN Fail("infiniteLoop") /\ UNCHANGED <<lexer, qi, logged>>
              ELSE /\ lexer' = [lexer EXCEPT !.tokens[n.tok].tokens = r.tokens]
                   /\ qi' = qi + 1
                   /\ logged' = IF r.exhausted THEN logged + 1 ELSE logged
                   /\ UNCHANGED <<pc, error, result>>
  /\ UNCHANGED <<defaults, uses, useResult, source, options, value, out,
                 pending, started, early, registry>>
  /\ UNCHANGED aux

\* s.walkTokens && this.walkTokens(p, s.walkTokens)
WalkTokens ==
  /\ pc = "walkTokens"
  /\ Ready
  /\ IF ~HasWalkTokens(options)
     THEN /\ pc' = "parse"
          /\ UNCHANGED <<pending, result, error, started, early>>
     ELSE LET oc == IF CountTokens(lexer.tokens) = 0 THEN "value"
                    ELSE ChainOutcome(options.hooks["walkTokens"], FALSE)
          IN  /\ Begin("walkTokens")
              /\ IF value = "promise"
                 THEN Fail("typeError") /\ UNCHANGED pending
                 ELSE IF oc = "throw"
                 THEN Fail("hook") /\ UNCHANGED pending
                 ELSE /\ pc' = "parse"
                      /\ pending' = IF oc = "value" THEN pending ELSE oc
                      /\ UNCHANGED <<result, error>>
  /\ UNCHANGED <<defaults, uses, useResult, source, options, lexer, qi, value,
                 out, logged, registry>>
  /\ UNCHANGED aux

\* Parser.parse on the tokens the previous stage handed on
Parse ==
  /\ pc = "parse"
  /\ Ready
  /\ Begin("parse")
  /\ registry' = ParserRegistry(registry)
  /\ value' = "value"
  /\ IF value = "promise"
     THEN /\ out' = <<>>
          /\ pc' = "postprocess"
          /\ UNCHANGED <<error, result, logged>>
     ELSE LET r == ParserParse(lexer.tokens, <<>>, options)
          IN  IF ~r.found /\ ~options.silent
              THEN Fail("tokenNotFound") /\ UNCHANGED <<out, logged>>
              ELSE /\ out' = r.out
                   /\ pc' = "postprocess"
                   /\ logged' = IF r.found THEN logged ELSE logged + 1
                   /\ UNCHANGED <<error, result>>
  /\ UNCHANGED <<defaults, uses, useResult, source, options, lexer, qi,
                 pending>>
  /\ UNCHANGED aux

\* the value the call returns, or the promise chain resolves with
Return ==
  /\ pc = "return"
  /\ Ready
  /\ pc' = "done"
  /\ result' = IF options.async
               THEN [kind |-> "promise", state |-> "resolved", val |-> "output"]
               ELSE [kind |-> "return", state |-> "-",
                     val |-> IF value = "promise" THEN "promise" ELSE "output"]
  /\ UNCHANGED <<defaults, uses, useResult, source, options, lexer, qi, value,
                 out, pending, error, logged, started, early, registry>>
  /\ UNCHANGED aux

Next ==
  \/ /\ pc = "setup"
     /\ \E d \in Descriptors : Use(d)
  \/ /\ pc = "setup"
     /\ \E k \in InputKinds, a \in {"unset", "false", "true"}, sl \in BOOLEAN :
          \E t \in IF k = "string" THEN Sources ELSE {<<>>} :
             ParseCall(k, t, a, sl)
  \/ Preprocess
  \/ Lex
  \/ BlockTokens
  \/ InlineQueue
  \/ ProcessAllTokens
  \/ WalkTokens
  \/ Parse
  \/ Postprocess
  \/ Return
  \/ Settle

Spec == Init /\ [][Next]_<<vars, aux>>

\* ------------------------------------------- lexing with extension tokenizers
\* The descriptors of use({extensions: [{name: "custom", level, tokenizer}]}).
\* An inline tokenizer that returns a token with an empty raw is left out:
\* the loop of inlineTokens is one step of the model.
ExtDescriptors ==
  [async : {FALSE}, part : {"block"}, kind : ExtKinds]
  \cup [async : {FALSE}, part : {"inline"}, kind : ExtKinds \ {"empty"}]

\* Calls of use() that register tokenizers, then one synchronous parse call
\* followed up to the end of lex().
NextExt ==
  \/ /\ pc = "setup"
     /\ \E d \in ExtDescriptors : UseUpTo(d, MaxExt)
  \/ /\ pc = "setup"
     /\ \E sl \in BOOLEAN : \E t \in ExtSources :
          ParseCall("string", t, "unset", sl)
  \/ Preprocess
  \/ Lex
  \/ BlockTokens
  \/ InlineQueue

SpecExt == Init /\ [][NextExt]_<<vars, aux>>

\* --------------------------------------------------------------------- lists
\* The text of a list item, as Tokenizer.list has cut it from the source
\* (bullet and indentation removed), is a sequence of lines: a line of plain
\* text, a blank line, the only item of a nested list, a thematic break.
BlankLine == ""
NestedAtom == "- b"
ItemLines == {"a", BlankLine, NestedAtom, HrAtom}

\* item texts: trimmed, blank lines single, one nested list at most
WellFormedItem(ls) ==
  /\ ls # <<>>
  /\ ls[1] # BlankLine
  /\ ls[Len(ls)] # BlankLine
  /\ \A k \in 1..(Len(ls) - 1) : ~(ls[k] = BlankLine /\ ls[k + 1] = BlankLine)
  /\ Cardinality({k \in 1..Len(ls) : ls[k] = NestedAtom}) <= 1

ItemTexts ==
  { ls \in UNION { [1..k -> ItemLines] : k \in 1..MaxItemLines } :
       WellFormedItem(ls) }

\* the items of a list: the text of each and whether its raw ends with a
\* blank line (a blank line follows it in the source)
ListInputs ==
  UNION { [1..n -> [text : ItemTexts, blank : BOOLEAN]] : n \in 1..MaxItems }

ItemToken(type, text) == [type |-> type, text |-> text]

\* the lines of plain text a text starts with
RECURSIVE TextRun(_)
TextRun(e) == IF e = <<>> \/ Head(e) # "a" THEN 0 ELSE 1 + TextRun(Tail(e))

\* the text branch of Lexer.blockTokens: a text token is merged into a text
\* token before it
PushOrMergeLine(t, line) ==
  IF t # <<>> /\ t[Len(t)].type = "text"
  THEN [t EXCEPT ![Len(t)].text = @ \o <<line>>]
  ELSE Append(t, ItemToken("text", <<line>>))

\* the end of Lexer.blockTokens: this.state.top = !0
BlockTokensEnd(tp) == TRUE

\* Lexer.blockTokens on the text of an item, tp being this.lexer.state.top:
\*   a blank line is a space token, unless the hr before it took it in its raw;
\*   a nested list takes the lines of plain text that follow it into its item
\*   (lazy continuation), and Tokenizer.list calls blockTokens on that item:
\*   state.top is what that call leaves;
\*   a line of plain text is a paragraph with the lines that follow it when
\*   state.top is true, a text token when it is false.
RECURSIVE ItemBlockTokens(_, _, _)
ItemBlockTokens(e, t, tp) ==
  IF e = <<>> THEN [tokens |-> t, top |-> BlockTokensEnd(tp)]
  ELSE IF Head(e) = BlankLine
  THEN ItemBlockTokens(Tail(e),
                       IF t # <<>> /\ t[Len(t)].type = "hr" THEN t
                       ELSE Append(t, ItemToken("space", <<BlankLine>>)),
                       tp)
  ELSE IF Head(e) = HrAtom
  THEN ItemBlockTokens(Tail(e), Append(t, ItemToken("hr", <<HrAtom>>)), tp)
  ELSE IF Head(e) = NestedAtom
  THEN LET n == TextRun(Tail(e))
           nested == ItemBlockTokens(<<"b">> \o SubSeq(Tail(e), 1, n), <<>>, FALSE)
       IN  ItemBlockTokens(Substring(Tail(e), n),
                           Append(t, ItemToken("list", nested.tokens[1].text)),
                           nested.top)
  ELSE IF tp
  THEN ItemBlockTokens(Substring(e, TextRun(e)),
                       Append(t, ItemToken("paragraph", SubSeq(e, 1, TextRun(e)))),
                       tp)
  ELSE ItemBlockTokens(Tail(e), PushOrMergeLine(t, Head(e)), tp)

\* the loop over the items, for each i.loose || (o ? i.loose = !0 :
\* doubleBlankLine.test(p) && (o = !0)): o is set by an item whose raw ends
\* with a blank line, the list is loose at the item that comes after it
RECURSIVE LooseLoop(_, _, _)
LooseLoop(its, o, loose) ==
  IF its = <<>> THEN loose
  ELSE IF loose THEN LooseLoop(Tail(its), o, loose)
  ELSE IF o THEN LooseLoop(Tail(its), o, TRUE)
  ELSE LooseLoop(Tail(its), Head(its).blank, loose)

\* (variant: a blank line after any item, the last one too, makes the list
\* loose)
LooseAfterAnyItem(its) == \E j \in 1..Len(its) : its[j].blank

\* i.loose at the end of the loop, o and i.loose being false at its start
LooseByBlankLine(its) == LooseLoop(its, FALSE, FALSE)

\* p.length > 0 && p.some(f => anyLine.test(f.raw)), p the space tokens
HasBlankLineInside(t) == \E k \in 1..Len(t) : t[k].type = "space"

\* Parser.parse(tokens, top) on the tokens of an item
RECURSIVE ParseItem(_, _)
ParseItem(t, tp) ==
  IF t = <<>> THEN <<>>
  ELSE LET tok == Head(t)
       IN  (CASE tok.type = "space" -> <<>>
              [] tok.type = "hr" -> <<"<hr>\n">>
              [] tok.type = "list" ->
                   <<"<ul>\n", "<li>">> \o tok.text \o <<"</li>\n", "</ul>\n">>
              [] tok.type = "paragraph" -> <<"<p>">> \o tok.text \o <<"</p>\n">>
              [] OTHER -> IF tp THEN <<"<p>">> \o tok.text \o <<"</p>\n">>
                          ELSE tok.text)
           \o ParseItem(Tail(t), tp)

\* Renderer.listitem (the item is no task)
RendererListitem(item) ==
  <<"<li>">> \o ParseItem(item.tokens, item.loose) \o <<"</li>\n">>

\* Tokenizer.list up to the loop that builds the tokens of the items
ListTokenizer ==
  /\ lpc = "setup"
  /\ \E its \in ListInputs :
       listTok' = [loose |-> LooseByBlankLine(its),
                   items |-> [k \in 1..Len(its) |->
                                [text |-> its[k].text, blank |-> its[k].blank,
                                 loose |-> FALSE, tokens |-> <<>>]]]
  /\ listU' = 1
  /\ lpc' = "items"
  /\ UNCHANGED <<listOut, notList>>

\* one turn of for (let u = 0; u < i.items.length; u++): state.top = !1,
\* the tokens of the item, and the list is loose when they hold a blank line
ListItemTokens ==
  /\ lpc = "items"
  /\ listU <= Len(listTok.items)
  /\ LET r == ItemBlockTokens(listTok.items[listU].text, <<>>, FALSE)
     IN  listTok' = [listTok EXCEPT
                       !.items[listU].tokens = r.tokens,
                       !.loose = IF @ THEN @ ELSE HasBlankLineInside(r.tokens)]
  /\ listU' = listU + 1
  /\ UNCHANGED <<lpc, listOut, notList>>

\* if (i.loose) for (...) i.items[u].loose = !0; return i
ListLoose ==
  /\ lpc = "items"
  /\ listU > Len(listTok.items)
  /\ listTok' = [listTok EXCEPT
                   !.items = [k \in 1..Len(@) |->
                                [@[k] EXCEPT !.loose = listTok.loose]]]
  /\ lpc' = "render"
  /\ UNCHANGED <<listU, listOut, notList>>

\* Renderer.list: r += this.listitem(a) for every item
ListRender ==
  /\ lpc = "render"
  /\ listOut' = [k \in 1..Len(listTok.items) |->
                   RendererListitem(listTok.items[k])]
  /\ lpc' = "done"
  /\ UNCHANGED <<listTok, listU, notList>>

NextList ==
  \/ ListTokenizer
  \/ ListItemTokens
  \/ ListLoose
  \/ ListRender

SpecList == Init /\ [][NextList]_<<vars, aux>>

\* ------------------------------------------------------------------ escaping
\* The text of a token, character by character.
Chars == {"&", "<", ">", "\"", "'", "a", "x", "1", "#", ";"}
Digits == {"1"}
HexDigits == {"a", "1"}
WordChars == {"a", "x", "1"}

TokenTexts == UNION { [1..n -> Chars] : n \in 0..MaxChars }

\* the tokens the default renderer escapes or leaves as they are
EscTokens ==
  [type : {"text", "code", "codespan"}, text : TokenTexts, escaped : BOOLEAN]
    \cup [type : {"html"}, text : TokenTexts, escaped : {FALSE}]

\* Xe = {"&": "&amp;", "<": "&lt;", ">": "&gt;", '"': "&quot;", "'": "&#39;"}
Entity(c) ==
  CASE c = "&" -> "&amp;"
    [] c = "<" -> "&lt;"
    [] c = ">" -> "&gt;"
    [] c = "\"" -> "&quot;"
    [] c = "'" -> "&#39;"
    [] OTHER -> c

\* the characters of the set a text starts with
RECURSIVE RunLen(_, _)
RunLen(l, set) ==
  IF l = <<>> \/ Head(l) \notin set THEN 0 ELSE 1 + RunLen(Tail(l), set)

\* n characters of the set, n in lo..hi, then a semicolon
RunThenSemicolon(l, set, lo, hi) ==
  LET n == RunLen(l, set)
  IN  n >= lo /\ n <= hi /\ Len(l) > n /\ l[n + 1] = ";"

\* (#\d{1,7}|#[Xx][a-fA-F0-9]{1,6}|\w+); matched at the start of l, the
\* text after an ampersand
CharacterReference(l) ==
  \/ /\ l # <<>>
     /\ l[1] = "#"
     /\ RunThenSemicolon(Tail(l), Digits, 1, 7)
  \/ /\ Len(l) >= 2
     /\ l[1] = "#"
     /\ l[2] = "x"
     /\ RunThenSemicolon(Tail(Tail(l)), HexDigits, 1, 6)
  \/ RunThenSemicolon(l, WordChars, 1, Len(l))

\* escape (w): l.replace(escapeReplace, ke) when e is true, that is every
\* & < > " ' ; l.replace(escapeReplaceNoEncode, ke) otherwise, that is every
\* < > " ' and every & no character reference follows
RECURSIVE EscapeChars(_, _)
EscapeChars(l, e) ==
  IF l = <<>> THEN <<>>
  ELSE <<IF Head(l) = "&" /\ ~e /\ CharacterReference(Tail(l))
         THEN "&" ELSE Entity(Head(l))>>
       \o EscapeChars(Tail(l), e)

\* (variant: the text is escaped as code is)
RendererTextEncode(tok) ==
  IF tok.escaped THEN tok.text ELSE EscapeChars(tok.text, TRUE)

\* Renderer.text on a token without tokens
RendererText(tok) ==
  IF tok.escaped THEN tok.text ELSE EscapeChars(tok.text, FALSE)

\* Renderer.code on a token without lang
RendererCode(tok) ==
  <<"<pre><code>">>
    \o (IF tok.escaped THEN tok.text \o <<"\n">>
        ELSE EscapeChars(tok.text \o <<"\n">>, TRUE))
    \o <<"</code></pre>\n">>

\* Renderer.codespan
RendererCodespan(tok) ==
  <<"<code>">> \o EscapeChars(tok.text, TRUE) \o <<"</code>">>

\* Renderer.html
RendererHtml(tok) == tok.text

\* a token reaches the Renderer
EscToken ==
  /\ epc = "setup"
  /\ escTok' \in EscTokens
  /\ epc' = "render"
  /\ UNCHANGED <<escOut, notEsc>>

\* the case of Parser.parse or Parser.parseInline for the kind of the token
EscRender ==
  /\ epc = "render"
  /\ escOut' = CASE escTok.type = "text" -> RendererText(escTok)
                  [] escTok.type = "code" -> RendererCode(escTok)
                  [] escTok.type = "codespan" -> RendererCodespan(escTok)
                  [] OTHER -> RendererHtml(escTok)
  /\ epc' = "done"
  /\ UNCHANGED <<escTok, notEsc>>

NextEscape ==
  \/ EscToken
  \/ EscRender

SpecEscape == Init /\ [][NextEscape]_<<vars, aux>>

\* ------------------------------------------ overrides of a renderer method
\* use({renderer: {hr() {...}}}), several times, then a call of hr.  An
\* override returns false (not handled), a string of its own, or the empty
\* string.
RendererReturns == {"false", "html", "empty"}

Html(id) ==
  CASE id = 1 -> "<hr id=1>" [] id = 2 -> "<hr id=2>" [] id = 3 -> "<hr id=3>"
    [] id = 4 -> "<hr id=4>" [] OTHER -> "<hr id=n>"

\* what the override returns: false, or a string
Returned(o) ==
  CASE o.ret = "false" -> [false |-> TRUE, str |-> ""]
    [] o.ret = "html" -> [false |-> FALSE, str |-> Html(o.id)]
    [] OTHER -> [false |-> FALSE, str |-> ""]

\* c || ""
OrEmpty(c) == IF c.false THEN "" ELSE c.str

\* (variant: the new override is called after those registered before it)
WrapRendererInside(chain, o) == chain \o <<o>>

\* i[o] = (...p) => {let c = a.apply(i, p); return c === !1 && (c =
\* u.apply(i, p)), c || ""}: the new override a is called first, the method
\* as it was (u) only when a returns false
WrapRenderer(chain, o) == <<o>> \o chain

\* Marked.use with a renderer that has the method hr
RendererUse ==
  /\ rpc = "setup"
  /\ Len(rchain) < MaxOverrides
  /\ \E ret \in RendererReturns :
       rchain' = WrapRenderer(rchain, [id |-> Len(rchain) + 1, ret |-> ret])
  /\ UNCHANGED <<rpc, rpos, rcalls, rres, notRend>>

\* Parser.parse, case "hr": n += this.renderer.hr(s)
RendererCall ==
  /\ rpc = "setup"
  /\ rpc' = "call"
  /\ rpos' = 1
  /\ rcalls' = <<>>
  /\ UNCHANGED <<rchain, rres, notRend>>

\* the body of one wrapper, or the built-in method at the end of the chain
RendererStep ==
  /\ rpc = "call"
  /\ IF rpos > Len(rchain)
     THEN /\ rcalls' = Append(rcalls, 0)
          /\ rres' = OrEmpty([false |-> FALSE, str |-> "<hr>\n"])
          /\ rpc' = "done"
          /\ UNCHANGED rpos
     ELSE /\ rcalls' = Append(rcalls, rchain[rpos].id)
          /\ IF Returned(rchain[rpos]).false
             THEN /\ rpos' = rpos + 1
                  /\ UNCHANGED <<rres, rpc>>
             ELSE /\ rres' = OrEmpty(Returned(rchain[rpos]))
                  /\ rpc' = "done"
                  /\ UNCHANGED rpos
  /\ UNCHANGED <<rchain, notRend>>

NextRenderer ==
  \/ RendererUse
  \/ RendererCall
  \/ RendererStep

SpecRenderer == Init /\ [][NextRenderer]_<<vars, aux>>

\* ------------------------------------------ overrides of pass-through hooks
\* use({hooks: {preprocess(x) {...}}}), several times, then a stage that
\* calls the hook.  An override returns a value of its own, at once ("sync")
\* or as a deferred value that resolves to it ("deferred").
HookKinds == {"sync", "deferred"}

\* (variant: the new override is called after those registered before it)
WrapHookInside(chain, o) == chain \o <<o>>

\* i[o] = p => {...; let c = a.call(i, p); return u.call(i, c)}: the new
\* override a is called first, the method as it was (u) on what a returned
WrapHook(chain, o) == <<o>> \o chain

\* Marked.use with hooks that have the method h
HooksUse ==
  /\ hpc = "setup"
  /\ hn < MaxHooks
  /\ \E h \in HookNames, k \in HookKinds, a \in BOOLEAN :
       /\ hchain' = [hchain EXCEPT ![h] = WrapHook(@, [id |-> hn + 1, kind |-> k])]
       /\ hasync' = (hasync \/ a)
  /\ hn' = hn + 1
  /\ UNCHANGED <<hpc, hname, hpos, hval, hcalls, hres, notHook>>

\* s.hooks.preprocess(n), s.hooks.processAllTokens(p), s.hooks.postprocess(p)
HooksCall ==
  /\ hpc = "setup"
  /\ hn > 0
  /\ hname' \in HookNames
  /\ hpc' = "call"
  /\ hpos' = 1
  /\ hval' = StageInput
  /\ hcalls' = <<>>
  /\ UNCHANGED <<hchain, hasync, hn, hres, notHook>>

\* the body of one wrapper: a.call(i, p), whose value goes to u as it is,
\* or once settled when this.defaults.async is set
\* (Promise.resolve(a.call(i, p)).then(f => u.call(i, f)))
HooksStep ==
  /\ hpc = "call"
  /\ hpos <= Len(hchain[hname])
  /\ LET o == hchain[hname][hpos]
     IN  /\ hcalls' = Append(hcalls, [id |-> o.id, received |-> hval])
         /\ hval' = [from |-> o.id,
                     deferred |-> (o.kind = "deferred" /\ ~hasync)]
  /\ hpos' = hpos + 1
  /\ UNCHANGED <<hchain, hasync, hn, hpc, hname, hres, notHook>>

\* the method of Hooks at the end of the chain: preprocess(e) {return e};
\* the wrappers of an asynchronous instance return a deferred value
HooksEnd ==
  /\ hpc = "call"
  /\ hpos > Len(hchain[hname])
  /\ hres' = [hval EXCEPT !.deferred = @ \/ (hasync /\ hchain[hname] # <<>>)]
  /\ hpc' = "done"
  /\ UNCHANGED <<hchain, hasync, hn, hname, hpos, hval, hcalls, notHook>>

NextHooks ==
  \/ HooksUse
  \/ HooksCall
  \/ HooksStep
  \/ HooksEnd

SpecHooks == Init /\ [][NextHooks]_<<vars, aux>>

\* ------------------------------------------------------------ walkTokens
\* A call of Marked.walkTokens on a token list as the Lexer builds it.  A
\* token is an object with a type; a table token holds cells in header and
\* rows, a cell is an object with tokens and no type.
Tok(ty, ts) ==
  [type |-> ty, tokens |-> ts, items |-> <<>>, header |-> <<>>, rows |-> <<>>]
TextTok == Tok("text", <<>>)
EmTok == Tok("em", <<TextTok>>)
InlineRuns == {<<TextTok>>, <<EmTok, TextTok>>}
Cells == {[tokens |-> r] : r \in InlineRuns}
SeqsBetween(S, lo, hi) == UNION {[1..n -> S] : n \in lo..hi}
\* tables of c columns and n body rows; the cells of the header hold one
\* inline run, the cells of the body another
Tables ==
  {[type |-> "table", tokens |-> <<>>, items |-> <<>>,
    header |-> [k \in 1..c |-> h],
    rows |-> [j \in 1..n |-> [k \in 1..c |-> b]]] :
      c \in 1..MaxCols, n \in 0..MaxRows, h \in Cells, b \in Cells}
ListOf(its) ==
  [type |-> "list", tokens |-> <<>>, items |-> its, header |-> <<>>,
   rows |-> <<>>]
TextBlock == Tok("text", <<TextTok>>)
InnerList == ListOf(<<Tok("list_item", <<TextBlock>>)>>)
WalkItems ==
  {Tok("list_item", r) : r \in {<<TextBlock>>, <<TextBlock, InnerList>>}}
Lists == {ListOf(its) : its \in SeqsBetween(WalkItems, 1, MaxWalkItems)}
WalkBlocks ==
  {Tok("hr", <<>>)} \cup {Tok("paragraph", r) : r \in InlineRuns}
  \cup Lists \cup Tables
Trees == SeqsBetween(WalkBlocks, 1, MaxTop)

\* where an object sits in its parent: the field, and the place in it
\* (k = 0: the cell itself)
Step(f, r, c, k) == [field |-> f, row |-> r, col |-> c, k |-> k]

RECURSIVE Flat(_)
Flat(ss) == IF ss = <<>> THEN <<>> ELSE Head(ss) \o Flat(Tail(ss))

\* the entries of one token list, in the order of "for (let r of e)"
Entries(ts, p, f, r, c) ==
  [k \in DOMAIN ts |-> [path |-> p \o <<Step(f, r, c, k)>>, tok |-> ts[k]]]

\* (variant: the body rows of a table are not walked)
WalkChildrenHeaderOnly(t, p) ==
  IF t.type = "table"
  THEN Flat([c \in DOMAIN t.header |->
               Entries(t.header[c].tokens, p, "header", 0, c)])
  ELSE IF t.type = "list" THEN Entries(t.items, p, "items", 0, 0)
  ELSE Entries(t.tokens, p, "tokens", 0, 0)

\* the token lists walkTokens recurses on below a token r, by r.type:
\* "table": s.tokens of each header cell, then o.tokens of each cell of each
\* row; "list": i.items; default: i.tokens
WalkChildren(t, p) ==
  IF t.type = "table"
  THEN Flat([c \in DOMAIN t.header |->
               Entries(t.header[c].tokens, p, "header", 0, c)])
       \o Flat([r \in DOMAIN t.rows |->
                  Flat([c \in DOMAIN t.rows[r] |->
                          Entries(t.rows[r][c].tokens, p, "rows", r, c)])])
  ELSE IF t.type = "list" THEN Entries(t.items, p, "items", 0, 0)
  ELSE Entries(t.tokens, p, "tokens", 0, 0)

\* this.walkTokens(p, s.walkTokens)
WalkCall ==
  /\ wpc = "setup"
  /\ wtree' \in Trees
  /\ wagenda' = Entries(wtree', <<>>, "top", 0, 0)
  /\ wvisited' = <<>>
  /\ wpc' = "walk"
  /\ UNCHANGED notWalk

\* one turn of the loop: n = n.concat(t.call(this, r)), then the recursion
\* on the lists below r, which ends before the loop goes on
WalkStep ==
  /\ wpc = "walk"
  /\ wagenda # <<>>
  /\ LET e == Head(wagenda)
     IN  /\ wvisited' = Append(wvisited, e.path)
         /\ wagenda' = WalkChildren(e.tok, e.path) \o Tail(wagenda)
  /\ UNCHANGED <<wpc, wtree, notWalk>>

\* return n
WalkReturn ==
  /\ wpc = "walk"
  /\ wagenda = <<>>
  /\ wpc' = "done"
  /\ UNCHANGED <<wtree, wagenda, wvisited, notWalk>>

NextWalk ==
  \/ WalkCall
  \/ WalkStep
  \/ WalkReturn

SpecWalk == Init /\ [][NextWalk]_<<vars, aux>>

\* ------------------------------------------------------------ publishDocs
\* marked.parse(markdown) of the workflow: the instance has the initial
\* defaults, no use() call is made.  Lexer.lex, the inline queue, then
\* Parser.parse; threw: an error left the call.
RECURSIVE BlockTokensAll(_)
BlockTokensAll(lx) ==
  IF lx.src = <<>> THEN lx
  ELSE LET r == BlockTokensIteration(lx)
       IN  IF r.matched THEN BlockTokensAll(r.lexer) ELSE lx

RECURSIVE InlineQueueAll(_, _)
InlineQueueAll(lx, i) ==
  IF i > Len(lx.inlineQueue) THEN [lexer |-> lx, exhausted |-> FALSE]
  ELSE LET n == lx.inlineQueue[i]
           r == InlineTokens(n.src, n.tokens, lx.links, lx.options)
       IN  IF r.exhausted THEN [lexer |-> lx, exhausted |-> TRUE]
           ELSE InlineQueueAll([lx EXCEPT !.tokens[n.tok].tokens = r.tokens],
                               i + 1)

MarkedParse(text) ==
  LET o == InitialOptions
      lx == BlockTokensAll([NewLexer(o) EXCEPT
                              !.src = ReplaceCarriageReturn(text)])
      q == InlineQueueAll(lx, 1)
      r == ParserParse(q.lexer.tokens, <<>>, o)
  IN  IF lx.src # <<>> \/ q.exhausted \/ ~r.found
      THEN [threw |-> TRUE, out |-> <<>>]
      ELSE [threw |-> FALSE, out |-> r.out]

\* marked.parse on each content the file may have
Parsed == [c \in SourcesUpTo(MaxPubLines) |-> MarkedParse(c)]

\* (variant: the file is taken to be there)
ExistsSyncAlways(fs) == TRUE

\* fs.existsSync(readmePath)
ExistsSync(fs) == fs.exists

\* (variant: the status of the answer is not looked at)
ResponseNeverThrows(ok) == FALSE

\* if (!response.ok) throw new Error(...), in getPageByTitle, createPage and
\* updatePage
ResponseThrows(ok) == ~ok

\* (variant: a page is created whatever the lookup found)
WriteCallAlwaysCreate(existingPage) == "createPage"

\* if (existingPage) await updatePage(...) else await createPage(...)
WriteCall(existingPage) ==
  IF existingPage.found THEN "updatePage" ELSE "createPage"

\* (variant: the version number of the page is sent as it is)
UpdatePayloadSameVersion(pageId, currentVersion, htmlContent) ==
  [id |-> pageId, hasVersion |-> TRUE, version |-> currentVersion,
   body |-> htmlContent]

\* the payload of updatePage: id, version: {number: currentVersion + 1},
\* body.storage.value
UpdatePayload(pageId, currentVersion, htmlContent) ==
  [id |-> pageId, hasVersion |-> TRUE, version |-> currentVersion + 1,
   body |-> htmlContent]

\* the payload of createPage: no id, no version, body.storage.value
CreatePayload(htmlContent) ==
  [id |-> "-", hasVersion |-> FALSE, version |-> 0, body |-> htmlContent]

\* one fetch call: the function that made it, its arguments, the payload
\* sent, whether the status of the answer was 2xx, and the page the answer
\* to a lookup holds
RemoteCall(fn, pageId, currentVersion, payload, ok, answer) ==
  [fn |-> fn, pageId |-> pageId, currentVersion |-> currentVersion,
   payload |-> payload, ok |-> ok, answer |-> answer]

\* the process starts: the file system it finds
PubStart ==
  /\ ppc = "start"
  /\ pfs' \in FileSystems
  /\ ppc' = "exists"
  /\ UNCHANGED <<pparsed, phtml, ppage, premote, pexit, notPub>>

\* if (!fs.existsSync(readmePath)) {console.log(...); return}: the promise
\* of publishDocs() resolves and the process ends with nothing left to run
PubSkip ==
  /\ ppc = "exists"
  /\ ~ExistsSync(pfs)
  /\ ppc' = "end"
  /\ pexit' = "0"
  /\ UNCHANGED <<pfs, pparsed, phtml, ppage, premote, notPub>>

\* fs.readFileSync(readmePath, "utf-8"), which throws when no file is there
PubRead ==
  /\ ppc = "exists"
  /\ ExistsSync(pfs)
  /\ ppc' = IF pfs.exists THEN "parse" ELSE "catch"
  /\ UNCHANGED <<pfs, pparsed, phtml, ppage, premote, pexit, notPub>>

\* const html = marked.parse(markdown)
PubParse ==
  /\ ppc = "parse"
  /\ pparsed' = TRUE
  /\ LET r == Parsed[pfs.content]
     IN  IF r.threw
         THEN ppc' = "catch" /\ UNCHANGED phtml
         ELSE ppc' = "lookup" /\ phtml' = r.out
  /\ UNCHANGED <<pfs, ppage, premote, pexit, notPub>>

\* const existingPage = await getPageByTitle(title): a GET, an error when
\* the status is not 2xx, else data.results[0] or null
PubLookup ==
  /\ ppc = "lookup"
  /\ \E ok \in BOOLEAN, page \in Pages \cup {NoPage} :
       /\ ok \/ page = NoPage
       /\ premote' = Append(premote,
                            RemoteCall("getPageByTitle", "-", 0,
                                       CreatePayload(<<>>), ok, page))
       /\ IF ResponseThrows(ok)
          THEN ppc' = "catch" /\ UNCHANGED ppage
          ELSE ppc' = "write" /\ ppage' = page
  /\ UNCHANGED <<pfs, pparsed, phtml, pexit, notPub>>

\* await updatePage(existingPage.id, existingPage.version.number, title,
\* html): a PUT, an error when the status is not 2xx; links: the answer
\* holds the _links the function logs
PubUpdate ==
  /\ ppc = "write"
  /\ WriteCall(ppage) = "updatePage"
  /\ \E ok \in BOOLEAN, links \in BOOLEAN :
       /\ premote' = Append(premote,
                            RemoteCall("updatePage", ppage.id, ppage.version,
                                       UpdatePayload(ppage.id, ppage.version,
                                                     phtml), ok, NoPage))
       /\ IF ResponseThrows(ok) \/ ~links
          THEN ppc' = "catch" /\ UNCHANGED pexit
          ELSE ppc' = "end" /\ pexit' = "0"
  /\ UNCHANGED <<pfs, pparsed, phtml, ppage, notPub>>

\* await createPage(title, html): a POST, an error when the status is not
\* 2xx
PubCreate ==
  /\ ppc = "write"
  /\ WriteCall(ppage) = "createPage"
  /\ \E ok \in BOOLEAN, links \in BOOLEAN :
       /\ premote' = Append(premote,
                            RemoteCall("createPage", "-", 0,
                                       CreatePayload(phtml), ok, NoPage))
       /\ IF ResponseThrows(ok) \/ ~links
          THEN ppc' = "catch" /\ UNCHANGED pexit
          ELSE ppc' = "end" /\ pexit' = "0"
  /\ UNCHANGED <<pfs, pparsed, phtml, ppage, notPub>>

\* publishDocs().catch(err => {console.error(...); process.exit(1)})
PubCatch ==
  /\ ppc = "catch"
  /\ pexit' = "1"
  /\ ppc' = "end"
  /\ UNCHANGED <<pfs, pparsed, phtml, ppage, premote, notPub>>

NextPublish ==
  \/ PubStart
  \/ PubSkip
  \/ PubRead
  \/ PubParse
  \/ PubLookup
  \/ PubUpdate
  \/ PubCreate
  \/ PubCatch

SpecPublish == Init /\ [][NextPublish]_<<vars, aux>>

\* every step of a run is taken once it can be: the script runs to its end
SpecPublishFair == SpecPublish /\ WF_<<vars, aux>>(NextPublish)

\* ----------------------------------------------------------- rule tables
\* A Lexer made with the options pedantic, gfm and breaks, on a text whose
\* blocks, separated by blank lines, hold the grammar that differs between
\* the rule tables.
PlainBlock == "a"
TwoLinesBlock == "a\nb"
HardBreakBlock == "a  \nb"
TableBlock == "|a|\n|-|"
DelBlock == "~~a~~"
UrlBlock == "www.a.b"
TaskBlock == "- [ ] a"
DialectBlocks ==
  {PlainBlock, TwoLinesBlock, HardBreakBlock, TableBlock, DelBlock, UrlBlock,
   TaskBlock}

\* two list items in a row would be one list
DialectSources ==
  { bs \in UNION { [1..n -> DialectBlocks] : n \in 1..MaxBlocks } :
      \A k \in 1..(Len(bs) - 1) : ~(bs[k] = TaskBlock /\ bs[k + 1] = TaskBlock) }

DialectOptions == [pedantic : BOOLEAN, gfm : BOOLEAN, breaks : BOOLEAN]

\* (variant: the breaks option selects its table whatever gfm and pedantic)
LexerRulesBreaksFirst(o) ==
  IF o.breaks THEN [block |-> IF o.pedantic THEN "pedantic"
                              ELSE IF o.gfm THEN "gfm" ELSE "normal",
                    inline |-> "breaks"]
  ELSE IF o.pedantic THEN [block |-> "pedantic", inline |-> "pedantic"]
  ELSE IF o.gfm THEN [block |-> "gfm", inline |-> "gfm"]
  ELSE [block |-> "normal", inline |-> "normal"]

\* the constructor of the Lexer: let t = {block: I.normal, inline: M.normal};
\* options.pedantic ? (t.block = I.pedantic, t.inline = M.pedantic)
\* : options.gfm && (t.block = I.gfm,
\*                   options.breaks ? t.inline = M.breaks : t.inline = M.gfm)
LexerRules(o) ==
  IF o.pedantic THEN [block |-> "pedantic", inline |-> "pedantic"]
  ELSE IF o.gfm
  THEN [block |-> "gfm", inline |-> IF o.breaks THEN "breaks" ELSE "gfm"]
  ELSE [block |-> "normal", inline |-> "normal"]

\* the rules of the tables: table is a rule that never matches in the
\* normal block table, which the pedantic table copies; del and url never
\* match in the normal inline table, which the pedantic table copies, and
\* the breaks table copies those of the gfm table; br of the breaks table has
\* {2,} replaced by *
BlockTableRule(block) == block = "gfm"
InlineDelRule(inline) == inline \in {"gfm", "breaks"}
InlineUrlRule(inline) == inline \in {"gfm", "breaks"}
InlineBrNeedsSpaces(inline) == inline # "breaks"

\* Tokenizer.list: this.options.gfm && (T = listIsTask.exec(c), ...),
\* task: !!T
ListIsTask(o, b) == o.gfm /\ b = TaskBlock

DialectToken(type, text, task, tokens) ==
  [type |-> type, text |-> text, task |-> task, tokens |-> tokens]

\* Lexer.blockTokens on one block: a list with its only item, a table when
\* the table rule of the block table matches, else a paragraph
DialectBlockToken(b, rules, o) ==
  IF b = TaskBlock
  THEN DialectToken("list", IF ListIsTask(o, b) THEN "a" ELSE "[ ] a",
                    ListIsTask(o, b), <<>>)
  ELSE IF b = TableBlock /\ BlockTableRule(rules.block)
  THEN DialectToken("table", "a", FALSE, <<>>)
  ELSE DialectToken("paragraph", b, FALSE, <<>>)

\* Lexer.inlineTokens on the text of a block token
DialectInline(tok, rules) ==
  LET text(x) == DialectToken("text", x, FALSE, <<>>)
      br == DialectToken("br", "\n", FALSE, <<>>)
  IN  IF tok.text = DelBlock /\ InlineDelRule(rules.inline)
      THEN <<DialectToken("del", "a", FALSE, <<text("a")>>)>>
      ELSE IF tok.text = UrlBlock /\ InlineUrlRule(rules.inline)
      THEN <<DialectToken("link", UrlBlock, FALSE, <<text(UrlBlock)>>)>>
      ELSE IF tok.text = HardBreakBlock
      THEN <<text("a"), br, text("b")>>
      ELSE IF tok.text = TwoLinesBlock /\ ~InlineBrNeedsSpaces(rules.inline)
      THEN <<text("a"), br, text("b")>>
      ELSE <<text(tok.text)>>

\* new Lexer(options)
DialectLexer ==
  /\ dpc = "setup"
  /\ dopt' \in DialectOptions
  /\ dsrc' \in DialectSources
  /\ drules' = LexerRules(dopt')
  /\ dtokens' = <<>>
  /\ dpc' = "blockTokens"
  /\ UNCHANGED notDial

\* Lexer.blockTokens: the token of each block
DialectBlockTokens ==
  /\ dpc = "blockTokens"
  /\ dtokens' = [k \in 1..Len(dsrc) |-> DialectBlockToken(dsrc[k], drules, dopt)]
  /\ dpc' = "inlineTokens"
  /\ UNCHANGED <<dopt, drules, dsrc, notDial>>

\* the inline queue: the inline tokens of each block
DialectInlineTokens ==
  /\ dpc = "inlineTokens"
  /\ dtokens' = [k \in 1..Len(dtokens) |->
                   [dtokens[k] EXCEPT !.tokens = DialectInline(dtokens[k], drules)]]
  /\ dpc' = "done"
  /\ UNCHANGED <<dopt, drules, dsrc, notDial>>

NextDialect ==
  \/ DialectLexer
  \/ DialectBlockTokens
  \/ DialectInlineTokens

SpecDialect == Init /\ [][NextDialect]_<<vars, aux>>

\* ----------------------------------------------------- task items of lists
\* A list as Tokenizer.list returns it under gfm, with task items, handed
\* to Parser.parse once or more.  The tokens of an item are tokenized with
\* state.top false: a line of text is a text token, a thematic break an hr.
TaskToken(type, text, escaped) ==
  [type |-> type, text |-> text, escaped |-> escaped]

\* the tokens of an item: its text "a", or "***" and then "a"
TaskItemTokens ==
  { <<TaskToken("text", <<"a">>, FALSE)>>,
    <<TaskToken("hr", <<HrAtom>>, FALSE), TaskToken("text", <<"a">>, FALSE)>> }

\* the items: task and checked as listIsTask found them ([ ] or [x])
TaskItems ==
  { [task |-> t, checked |-> c, loose |-> FALSE, tokens |-> ts] :
      t \in BOOLEAN, c \in BOOLEAN, ts \in TaskItemTokens }

\* the lists: a loose one has two items or more, a blank line between them
TaskLists ==
  { tl \in { [loose |-> l,
              items |-> [k \in DOMAIN its |-> [its[k] EXCEPT !.loose = l]]] :
               l \in BOOLEAN,
               its \in { x \in UNION { [1..n -> TaskItems] :
                                         n \in 1..MaxTaskItems } :
                           \A k \in DOMAIN x : x[k].checked => x[k].task } } :
      tl.loose => Len(tl.items) >= 2 }

\* Renderer.checkbox
Checkbox(checked) ==
  IF checked THEN "<input checked=\"\" disabled=\"\" type=\"checkbox\">"
  ELSE "<input disabled=\"\" type=\"checkbox\">"

\* Renderer.text: e.escaped ? e.text : escape(e.text); the token of the
\* checkbox is flagged escaped, the text "a" holds none of & < > " '
TaskRendererText(tok) == tok.text

\* Parser.parse(tokens, top) on the tokens of an item: the text tokens that
\* follow one another are joined by "\n" and wrapped in a paragraph when top
\* is set
RECURSIVE TaskParse(_, _, _)
TaskParse(t, tp, run) ==
  LET flush == IF run = <<>> THEN <<>>
               ELSE IF tp THEN <<"<p>">> \o run \o <<"</p>\n">>
               ELSE run
  IN  IF t = <<>> THEN flush
      ELSE IF Head(t).type = "text"
      THEN TaskParse(Tail(t), tp,
                     (IF run = <<>> THEN <<>> ELSE run \o <<"\n">>)
                       \o TaskRendererText(Head(t)))
      ELSE flush \o <<"<hr>\n">> \o TaskParse(Tail(t), tp, <<>>)

\* the tokens of the item when Renderer.listitem calls the Parser: for a
\* task item of a loose list, e.tokens.unshift({type: "text", raw: n + " ",
\* text: n + " ", escaped: !0}) (the first token is no paragraph)
ListitemTokens(item) ==
  IF item.task /\ item.loose
  THEN <<TaskToken("text", <<Checkbox(item.checked), " ">>, TRUE)>>
         \o item.tokens
  ELSE item.tokens

\* Renderer.listitem: for a task item of a tight list t += n + " "
Listitem(item) ==
  <<"<li>">>
    \o (IF item.task /\ ~item.loose THEN <<Checkbox(item.checked), " ">>
        ELSE <<>>)
    \o TaskParse(ListitemTokens(item), item.loose, <<>>)
    \o <<"</li>\n">>

\* Lexer.lex: the list token
TaskLex ==
  /\ tpc = "setup"
  /\ ttok' \in TaskLists
  /\ ttok0' = ttok'
  /\ touts' = <<>>
  /\ tpc' = "lexed"
  /\ UNCHANGED notTask

\* Parser.parse on the token list: Renderer.list calls Renderer.listitem on
\* every item, which writes the tokens of the item
TaskRender ==
  /\ tpc = "lexed"
  /\ Len(touts) < MaxRenders
  /\ touts' = Append(touts, [k \in DOMAIN ttok.items |-> Listitem(ttok.items[k])])
  /\ ttok' = [ttok EXCEPT
                !.items = [k \in DOMAIN @ |->
                             [@[k] EXCEPT !.tokens = ListitemTokens(ttok.items[k])]]]
  /\ UNCHANGED <<tpc, ttok0, notTask>>

NextTask ==
  \/ TaskLex
  \/ TaskRender

SpecTask == Init /\ [][NextTask]_<<vars, aux>>

\* ------------------------------------------------------- links and inLink
\* Lexer.inlineTokens under gfm on a text made of words, bare URLs, images
\* and links; the label of a link of the text is made of words, bare URLs,
\* images and links whose label is a word.
WordAtom == "a"
BareUrlAtom == "www.a.b"
ImageAtom == "![i](/s)"
InnerLinkAtom == "[b](/u)"
LabelAtoms == {WordAtom, BareUrlAtom, ImageAtom, InnerLinkAtom}
LinkLabels == UNION { [1..n -> LabelAtoms] : n \in 1..MaxLabel }

\* a construct of the text: one of the atoms, or [label](/v)
LinkConstructs ==
  {[atom |-> a, label |-> <<>>] : a \in LabelAtoms}
  \cup {[atom |-> "[](/v)", label |-> l] : l \in LinkLabels}
LinkSources == UNION { [1..n -> LinkConstructs] : n \in 1..MaxInline }

LinkToken(type, text, tokens) ==
  [type |-> type, text |-> text, tokens |-> tokens]

\* outputLink (fe) on a link or an image whose label is a word: n.state.inLink
\* = !0, tokens: n.inlineTokens(o), n.state.inLink = !1
OutputLinkOfWord(a) ==
  IF a = ImageAtom
  THEN LinkToken("image", "i", <<LinkToken("text", "i", <<>>)>>)
  ELSE LinkToken("link", "b", <<LinkToken("text", "b", <<>>)>>)

\* one turn of the loop of inlineTokens on an atom: the token it gives and
\* what state.inLink is after it.  link: the flag is false once outputLink
\* has returned; url: !this.state.inLink && (o = this.tokenizer.url(e)),
\* the link of a bare URL; inlineText otherwise.
InlineTurn(a, inLink) ==
  IF a \in {ImageAtom, InnerLinkAtom}
  THEN [token |-> OutputLinkOfWord(a), inLink |-> FALSE]
  ELSE IF a = BareUrlAtom /\ ~inLink
  THEN [token |-> LinkToken("autolink", a, <<LinkToken("text", a, <<>>)>>),
        inLink |-> inLink]
  ELSE [token |-> LinkToken("text", a, <<>>), inLink |-> inLink]

\* Lexer.inlineTokens(text)
LinkLex ==
  /\ kpc = "setup"
  /\ ksrc' \in LinkSources
  /\ kpc' = "inline"
  /\ UNCHANGED <<klabel, kdepth, kinLink, kchildren, ktokens, notLink>>

\* a turn of the loop on the text, at an atom
LinkTextTurn ==
  /\ kpc = "inline"
  /\ kdepth = 0
  /\ ksrc # <<>>
  /\ Head(ksrc).label = <<>>
  /\ LET r == InlineTurn(Head(ksrc).atom, kinLink)
     IN  /\ ktokens' = Append(ktokens, r.token)
         /\ kinLink' = r.inLink
  /\ ksrc' = Tail(ksrc)
  /\ UNCHANGED <<kpc, klabel, kdepth, kchildren, notLink>>

\* Tokenizer.link matches a link of the text; outputLink sets state.inLink
\* and calls inlineTokens on the label
LinkOpen ==
  /\ kpc = "inline"
  /\ kdepth = 0
  /\ ksrc # <<>>
  /\ Head(ksrc).label # <<>>
  /\ kinLink' = TRUE
  /\ klabel' = Head(ksrc).label
  /\ kchildren' = <<>>
  /\ kdepth' = 1
  /\ UNCHANGED <<kpc, ksrc, ktokens, notLink>>

\* a turn of the loop on the label
LinkLabelTurn ==
  /\ kpc = "inline"
  /\ kdepth = 1
  /\ klabel # <<>>
  /\ LET r == InlineTurn(Head(klabel), kinLink)
     IN  /\ kchildren' = Append(kchildren, r.token)
         /\ kinLink' = r.inLink
  /\ klabel' = Tail(klabel)
  /\ UNCHANGED <<kpc, ksrc, kdepth, ktokens, notLink>>

\* inlineTokens on the label returns; outputLink resets state.inLink and
\* returns the link token
LinkClose ==
  /\ kpc = "inline"
  /\ kdepth = 1
  /\ klabel = <<>>
  /\ ktokens' = Append(ktokens, LinkToken("link", "[](/v)", kchildren))
  /\ kinLink' = FALSE
  /\ kdepth' = 0
  /\ ksrc' = Tail(ksrc)
  /\ kchildren' = <<>>
  /\ UNCHANGED <<kpc, klabel, notLink>>

\* the text is used up
LinkEnd ==
  /\ kpc = "inline"
  /\ kdepth = 0
  /\ ksrc = <<>>
  /\ kpc' = "done"
  /\ UNCHANGED <<ksrc, klabel, kdepth, kinLink, kchildren, ktokens, notLink>>

NextLink ==
  \/ LinkLex
  \/ LinkTextTurn
  \/ LinkOpen
  \/ LinkLabelTurn
  \/ LinkClose
  \/ LinkEnd

SpecLink == Init /\ [][NextLink]_<<vars, aux>>

\* ------------------------------------------- labels that hold emphasis
\* Parse calls under the initial defaults on texts whose labels may hold
\* emphasis.
NextRef ==
  \/ /\ pc = "setup"
     /\ \E t \in RefSources, sl \in BOOLEAN :
          ParseCall("string", t, "unset", sl)
  \/ Preprocess
  \/ Lex
  \/ BlockTokens
  \/ InlineQueue
  \/ ProcessAllTokens
  \/ WalkTokens
  \/ Parse
  \/ Postprocess
  \/ Return

SpecRef == Init /\ [][NextRef]_<<vars, aux>>

\* ------------------------------------------- parse calls one after the other
\* Synchronous parse calls made one after the other on one instance whose
\* configuration is fixed before the first: a first call, a call on another
\* text, then the first call again.
AgainDescriptors ==
  [async : {FALSE}, part : {"options", "tokenizer", "block", "renderer"},
   kind : {"-"}]

AgainSources == SourcesUpTo(MaxAgainLines)

\* the texts parsed between the first call and its repetitions: definitions
\* of the label a, a marker, the empty text
OtherSources ==
  {<<"[a]", ": /1", NL>>, <<"[A]", ": /2 't'", NL>>, <<ExtAtom, NL>>, <<>>}

\* the call has returned to its caller, who makes another call later.  The
\* locals of the call are gone; the instance, the Lexer and the Parser of
\* the call and the output stay as they are in memory.
Again ==
  /\ pc = "done"
  /\ Len(hist) < MaxCalls - 1
  /\ hist' = Append(hist, source.text)
  /\ first' = IF hist = <<>>
              THEN [source |-> source, silent |-> options.silent,
                    result |-> result, out |-> out, error |-> error]
              ELSE first
  /\ pc' = "setup"
  /\ source' = [kind |-> "none", text |-> <<>>]
  /\ result' = NoResult
  /\ error' = "none"
  /\ value' = "value"
  /\ pending' = "no"
  /\ started' = <<>>
  /\ early' = FALSE
  /\ UNCHANGED <<defaults, uses, useResult, options, lexer, qi, out, logged,
                 registry, notAgain>>

\* the inputs of the calls: any for the first, another text or the first
\* input for the second, the first input from then on
AgainInput(k, t, sl) ==
  \/ /\ hist = <<>>
     /\ k \in {"string", "undefined"}
     /\ t \in (IF k = "string" THEN AgainSources ELSE {<<>>})
  \/ /\ Len(hist) = 1
     /\ k = "string"
     /\ t \in OtherSources
  \/ /\ Len(hist) >= 1
     /\ k = first.source.kind
     /\ t = first.source.text
     /\ sl = first.silent

NextAgain ==
  \/ /\ pc = "setup"
     /\ hist = <<>>
     /\ \E d \in AgainDescriptors : Use(d)
  \/ /\ pc = "setup"
     /\ \E k \in {"string", "undefined"}, sl \in BOOLEAN :
          \E t \in AgainSources \cup OtherSources :
             AgainInput(k, t, sl) /\ ParseCall(k, t, "unset", sl)
  \/ Preprocess
  \/ Lex
  \/ BlockTokens
  \/ InlineQueue
  \/ ProcessAllTokens
  \/ WalkTokens
  \/ Parse
  \/ Postprocess
  \/ Return
  \/ Again

SpecAgain == Init /\ [][NextAgain]_<<vars, aux>>

\* ------------------------------------------- two parse calls, one instance
\* Two calls of parse or parseInline with async set, made on one instance.
\* Each stage of the promise chain of parseMarkdown is one step, so the
\* stages of the two calls interleave at the boundaries of the chain.  The
\* options object s of a call is named by the id of the call.

\* use({async: true, hooks: {preprocess, processAllTokens, postprocess}})
TwoUse ==
  /\ \A i \in CallIds : calls[i].pc = "idle"
  /\ hooksObj.options = "absent"
  /\ hooksObj' = [options |-> "O", block |-> "undefined"]
  /\ UNCHANGED <<calls, notTwo>>

\* what a hook finds in this.options and this.block when it is called
HookSees(h, ho) == [hook |-> h, options |-> ho.options, block |-> ho.block]

\* the synchronous part of the call: s.hooks.options = s, s.hooks.block = e,
\* then Promise.resolve(s.hooks ? s.hooks.preprocess(n) : n)
TwoParseCall(i, block) ==
  /\ calls[i].pc = "idle"
  /\ LET ho == IF hooksObj.options = "absent" THEN hooksObj
               ELSE [options |-> i, block |-> block]
     IN  /\ hooksObj' = ho
         /\ calls' = [calls EXCEPT
                        ![i].pc = "lex",
                        ![i].block = block,
                        ![i].seen = IF ho.options = "absent" THEN @
                                    ELSE Append(@, HookSees("preprocess", ho))]
  /\ UNCHANGED notTwo

\* .then(p => a(p, s)): a new Lexer for the call
TwoLex(i) ==
  /\ calls[i].pc = "lex"
  /\ calls' = [calls EXCEPT ![i].pc = "processAllTokens", ![i].lexer = i]
  /\ UNCHANGED <<hooksObj, notTwo>>

\* .then(p => s.hooks ? s.hooks[h](p) : p)
TwoHook(i, h, next) ==
  /\ calls[i].pc = h
  /\ calls' = [calls EXCEPT
                 ![i].pc = next,
                 ![i].seen = IF hooksObj.options = "absent" THEN @
                             ELSE Append(@, HookSees(h, hooksObj))]
  /\ UNCHANGED <<hooksObj, notTwo>>

\* .then(p => s.walkTokens ? ... : p), no walkTokens callback registered
TwoWalkTokens(i) ==
  /\ calls[i].pc = "walkTokens"
  /\ calls' = [calls EXCEPT ![i].pc = "parse"]
  /\ UNCHANGED <<hooksObj, notTwo>>

\* .then(p => u(p, s)): a new Parser for the call
TwoParse(i) ==
  /\ calls[i].pc = "parse"
  /\ calls' = [calls EXCEPT ![i].pc = "postprocess", ![i].parser = i]
  /\ UNCHANGED <<hooksObj, notTwo>>

\* the promise of the call resolves
TwoReturn(i) ==
  /\ calls[i].pc = "return"
  /\ calls' = [calls EXCEPT ![i].pc = "done"]
  /\ UNCHANGED <<hooksObj, notTwo>>

NextTwo ==
  \/ TwoUse
  \/ \E i \in CallIds, b \in {"true", "false"} : TwoParseCall(i, b)
  \/ \E i \in CallIds : TwoLex(i)
  \/ \E i \in CallIds : TwoHook(i, "processAllTokens", "walkTokens")
  \/ \E i \in CallIds : TwoWalkTokens(i)
  \/ \E i \in CallIds : TwoParse(i)
  \/ \E i \in CallIds : TwoHook(i, "postprocess", "return")
  \/ \E i \in CallIds : TwoReturn(i)

SpecTwo == Init /\ [][NextTwo]_<<vars, aux>>

\* ------------------------------------------------------------------ claims
Failed(r) == r.kind = "throw" \/ (r.kind = "promise" /\ r.state = "rejected")

\* the position of a stage in the fixed order of the pipeline
Rank(stage) ==
  CASE stage = "preprocess" -> 1
    [] stage = "blockTokens" -> 2
    [] stage = "inlineTokens" -> 3
    [] stage = "processAllTokens" -> 4
    [] stage = "walkTokens" -> 5
    [] stage = "parse" -> 6
    [] stage = "postprocess" -> 7

RECURSIVE ConcatRaw(_)
ConcatRaw(t) == IF t = <<>> THEN <<>> ELSE Head(t).raw \o ConcatRaw(Tail(t))

\* C1: in every parse call, synchronous or asynchronous, the stages begin in
\* the fixed order preprocess, block tokenization, inline queue,
\* processAllTokens, walkTokens, rendering, postprocess, and no stage begins
\* while the deferred value returned by the stage before it is unsettled.
C1_StagesInOrderAndAwaited ==
  /\ \A i \in 1..(Len(started) - 1) : Rank(started[i]) < Rank(started[i + 1])
  /\ ~early

\* C2: once block tokenization has consumed the whole text, the raw fields
\* of the top-level tokens, concatenated in order, are the source text S.
C2_SpanCompleteness ==
  (pc = "inlineTokens" /\ lexer.src = <<>>) => ConcatRaw(lexer.tokens) = source.text

\* the links a text must resolve to, from the reference labels it contains
\* and the finished Link Reference Table
RECURSIVE ExpectedLinks(_, _)
ExpectedLinks(text, links) ==
  IF text = <<>> THEN <<>>
  ELSE (IF Head(text) \in RefAtoms /\ HasLink(links, ToLowerCase(Label(Head(text))))
        THEN <<[raw |-> <<Head(text)>>,
                href |-> LinkOf(links, ToLowerCase(Label(Head(text)))).href,
                title |-> LinkOf(links, ToLowerCase(Label(Head(text)))).title]>>
        ELSE <<>>)
       \o ExpectedLinks(Tail(text), links)

\* the link tokens of an inline token list, in order
RECURSIVE ActualLinks(_)
ActualLinks(t) ==
  IF t = <<>> THEN <<>>
  ELSE (IF Head(t).type = "link"
        THEN <<[raw |-> Head(t).raw, href |-> Head(t).href, title |-> Head(t).title]>>
        ELSE <<>>)
       \o ActualLinks(Tail(t))

\* C3: no leaf block has inline tokens while block tokenization is going on,
\* and when lex() ends every reference label of every paragraph whose label
\* is in the finished Link Reference Table is a link token with the href and
\* title of the table, wherever the definition stands in the document.
C3_ReferencesSeeWholeTable ==
  /\ pc = "blockTokens" =>
       \A i \in 1..Len(lexer.tokens) : lexer.tokens[i].tokens = <<>>
  /\ (pc = "processAllTokens" /\ logged = 0) =>
       \A i \in 1..Len(lexer.tokens) :
          lexer.tokens[i].type = "paragraph" =>
             ActualLinks(lexer.tokens[i].tokens)
               = ExpectedLinks(lexer.tokens[i].text, lexer.links)

\* a reference resolved by a definition that comes later in the document
C3_Witness ==
  /\ pc = "processAllTokens"
  /\ \E i, j \in 1..Len(lexer.tokens) :
       /\ i < j
       /\ lexer.tokens[j].type = "def"
       /\ lexer.tokens[i].type = "paragraph"
       /\ \E k \in 1..Len(lexer.tokens[i].tokens) :
            /\ lexer.tokens[i].tokens[k].type = "link"
            /\ lexer.tokens[i].tokens[k].href = lexer.tokens[j].href

\* C4: an entry of the Link Reference Table is never removed or changed
\* during a parse, and the table holds one entry per normalized label.
C4_LabelImmutable ==
  [][ /\ \A l \in lexer.links : l \in lexer'.links
      /\ \A l1, l2 \in lexer'.links : l1.tag = l2.tag => l1 = l2 ]_vars

\* two definitions of the label a (the second written A): the first is kept
C4_Witness ==
  /\ pc = "inlineTokens"
  /\ source.text = <<"[a]", ": /1", NL, "[A]", ": /2 't'", NL>>
  /\ lexer.src = <<>>
  /\ lexer.links = {[tag |-> "a", href |-> "/1", title |-> "null"]}

\* C5: when the block loop or the inline loop has text left and no rule
\* matches, then with silent set one message is logged, the loop is left with
\* the tokens accumulated so far and the parse goes on to the next step; with
\* silent unset the parse call fails with the infinite-loop error.
C5_GrammarExhaustion ==
  [][ /\ ( /\ pc = "blockTokens"
           /\ lexer.src # <<>>
           /\ ~BlockTokensIteration(lexer).matched
           /\ pending' = pending )
        => IF options.silent
           THEN /\ logged' = logged + 1
                /\ lexer'.tokens = lexer.tokens
                /\ pc' = "inlineTokens"
                /\ error' = "none"
           ELSE /\ pc' = "done"
                /\ error' = "infiniteLoop"
                /\ Failed(result')
      /\ ( /\ pc = "inlineTokens"
           /\ qi <= Len(lexer.inlineQueue)
           /\ InlineTokens(lexer.inlineQueue[qi].src, <<>>, lexer.links,
                           lexer.options).exhausted
           /\ pending' = pending )
        => IF options.silent
           THEN /\ logged' = logged + 1
                /\ Len(lexer'.tokens) = Len(lexer.tokens)
                /\ pc' = "inlineTokens"
                /\ error' = "none"
           ELSE /\ pc' = "done"
                /\ error' = "infiniteLoop"
                /\ Failed(result') ]_vars

\* silent: the block loop stopped on text it could not match, and the tokens
\* it had accumulated were rendered
C5_Witness ==
  /\ pc = "done"
  /\ options.silent
  /\ logged = 1
  /\ lexer.src # <<>>
  /\ lexer.tokens # <<>>
  /\ out # <<>>
  /\ result.val = "output"

\* the output Parser.parse has accumulated when it meets the first token
\* whose kind has no handler
RECURSIVE OutputSoFar(_, _)
OutputSoFar(t, o) ==
  IF t = <<>> \/ (Head(t).type = "custom" /\ ~o.renderer) THEN <<>>
  ELSE ParserParse(<<Head(t)>>, <<>>, o).out \o OutputSoFar(Tail(t), o)

\* the step of Parser.parse that meets a token kind with no handler
MeetsUnknownToken ==
  /\ pc = "parse"
  /\ started' # started
  /\ value = "value"
  /\ \E i \in 1..Len(lexer.tokens) :
       lexer.tokens[i].type = "custom" /\ ~options.renderer

NonStringInput == pc = "done" /\ source.kind \in InputKinds \ {"string"}

\* C7 (as stated): a parse call given a non-string input fails with an error
\* under every configuration, silent included, before any step runs.
C7_InvalidInputAlwaysFails ==
  NonStringInput => (Failed(result) /\ started = <<>>)

\* C7 (amended): a parse call given a non-string input reports an error
\* before any hook, tokenizer or renderer step runs; with silent unset the
\* error is thrown (rejected in async mode), with silent set it is returned
\* as an error HTML fragment (a resolved deferred value in async mode).
C7_InvalidInputReportedFirst ==
  NonStringInput =>
    /\ started = <<>>
    /\ logged = 0
    /\ error \in {"input", "async"}
    /\ IF options.silent
       THEN /\ result.val = "errorHtml"
            /\ result.kind \in {"return", "promise"}
            /\ result.kind = "promise" => result.state = "resolved"
            /\ (error = "input" /\ options.async) => result.kind = "promise"
       ELSE /\ Failed(result)
            /\ (error = "input" /\ options.async) => result.kind = "promise"
            /\ (error = "input" /\ ~options.async) => result.kind = "throw"

\* silent: undefined given to parse, an error fragment comes back
C7_Witness ==
  /\ pc = "done"
  /\ source.kind = "undefined"
  /\ error = "input"
  /\ options.silent
  /\ result = [kind |-> "return", state |-> "-", val |-> "errorHtml"]

\* use() refuses a descriptor naming a method or hook that does not exist,
\* and leaves the defaults as they were
RegistrationFailsFast ==
  \A d \in Descriptors :
     (NamesMissingMethod(d) /\ Use(d)) =>
        (useResult' = "throw" /\ defaults' = defaults)

C9_AsyncNeverThrows ==
  (pc = "done" /\ ~options.silent
     /\ error \in {"hook", "rejected", "typeError", "infiniteLoop",
                   "tokenNotFound"})
    => IF options.async
       THEN result = [kind |-> "promise", state |-> "rejected", val |-> "error"]
       ELSE result = [kind |-> "throw", state |-> "-", val |-> "error"]

\* C10: when async is unset and a hook or a walkTokens callback returns a
\* deferred value, the parse call ends there with an error.
C10_DeferredInSyncIsError ==
  [][ (~options.async /\ pc # "setup" /\ pending = "no" /\ pending' # "no")
        => (pc' = "done" /\ error' # "none" /\ Failed(result')) ]_vars

\* C11: a parse call, successful or failed, leaves the defaults and every
\* object reachable from them (the Hooks, Tokenizer and Renderer instances)
\* field for field as they were: only use() changes them.
C11_DefaultsNotMutated ==
  [][uses' = uses => (defaults' = defaults /\ registry' = registry)]_vars

\* C12: when the stages of two parses on one instance interleave, each parse
\* uses its own Lexer and Parser, and every hook a parse calls finds that
\* parse's own options and block/inline mode in this.options and this.block.
C12_ParsesDoNotInterfere ==
  \A i \in CallIds :
     /\ calls[i].lexer \in {"none", i}
     /\ calls[i].parser \in {"none", i}
     /\ \A k \in 1..Len(calls[i].seen) :
           /\ calls[i].seen[k].options = i
           /\ calls[i].seen[k].block = calls[i].block

\* C13: every iteration of the block loop either removes at least one
\* character from the remaining text or leaves the loop, so the remaining
\* text strictly shrinks until the loop ends.
C13_EveryIterationConsumes ==
  [][ (pc = "blockTokens" /\ pc' = "blockTokens" /\ lexer' # lexer)
        => Len(lexer'.src) < Len(lexer.src) ]_vars

\* the first tokenizer of a list, in the order of the list, that returns a
\* token on the text; 0 if none does
FirstMatching(exts, e) ==
  IF \E k \in 1..Len(exts) : Matched(ExtensionTokenizer(exts[k], e))
  THEN CHOOSE k \in 1..Len(exts) :
         /\ Matched(ExtensionTokenizer(exts[k], e))
         /\ \A j \in 1..(k - 1) : ~Matched(ExtensionTokenizer(exts[j], e))
  ELSE 0

C14_Determinism ==
  (pc = "done" /\ hist # <<>> /\ source = first.source
     /\ options.silent = first.silent)
    => /\ result = first.result
       /\ error = first.error
       /\ result.val = "output" => out = first.out

\* a reference to the label a parsed without a definition, then a text that
\* defines the label, then the reference again: it is still plain text
C14_Witness ==
  /\ pc = "done"
  /\ hist = <<<<"[a]", NL>>, <<"[a]", ": /1", NL>>>>
  /\ source.text = <<"[a]", NL>>
  /\ out = first.out
  /\ out = <<"<p>", "[", "a]", "</p>\n">>

\* a source text with every label atom split after its opening bracket and
\* the emphasis of a label split from the bracket that closes the label
RECURSIVE SplitBrackets(_)
SplitBrackets(text) ==
  IF text = <<>> THEN <<>>
  ELSE (IF Head(text) \in RefAtoms
        THEN <<"[">> \o AfterBracket(Head(text))
        ELSE <<Head(text)>>)
       \o SplitBrackets(Tail(text))

\* a paragraph that holds reference labels, none of them in the table
UnknownLabelsOnly(tok, links) ==
  /\ tok.type = "paragraph"
  /\ \E k \in 1..Len(tok.text) : tok.text[k] \in RefAtoms
  /\ ExpectedLinks(tok.text, links) = <<>>

\* C15 as stated: a paragraph whose reference labels are all absent from
\* the Link Reference Table is made of plain text tokens only, which merge
\* into one text token whose raw is the text of the paragraph.
C15_UnknownLabelIsAllText ==
  (pc = "processAllTokens" /\ logged = 0) =>
    \A i \in 1..Len(lexer.tokens) :
       UnknownLabelsOnly(lexer.tokens[i], lexer.links) =>
          /\ \A k \in 1..Len(lexer.tokens[i].tokens) :
                lexer.tokens[i].tokens[k].type = "text"
          /\ Len(lexer.tokens[i].tokens) = 1
          /\ ConcatRaw(lexer.tokens[i].tokens)
               = SplitBrackets(lexer.tokens[i].text)

\* C15: a reference whose label is absent from the Link Reference Table
\* gives no link token: its opening bracket is a text token merged into the
\* text token before it (no two text tokens are adjacent), what follows the
\* bracket is tokenized by the inline rules again (emphasis in the label is
\* an em token), and the raws of the tokens, concatenated, are the
\* text of the paragraph.
C15_UnknownLabelFirstCharIsText ==
  (pc = "processAllTokens" /\ logged = 0) =>
    \A i \in 1..Len(lexer.tokens) :
       UnknownLabelsOnly(lexer.tokens[i], lexer.links) =>
          LET t == lexer.tokens[i].tokens
          IN  /\ \A k \in 1..Len(t) : t[k].type \in {"text", "em"}
              /\ \A k \in 1..Len(t) :
                    t[k].type = "em" => t[k].raw = <<EmAtom>>
              /\ \A k \in 1..(Len(t) - 1) :
                    ~(t[k].type = "text" /\ t[k + 1].type = "text")
              /\ ConcatRaw(t) = SplitBrackets(lexer.tokens[i].text)

\* text, then a reference to an absent label that holds emphasis: the
\* bracket is merged into the text before it and the emphasis is a token
C15_Witness ==
  /\ pc = "processAllTokens"
  /\ logged = 0
  /\ lexer.links = {}
  /\ Len(lexer.tokens) = 1
  /\ lexer.tokens[1].text = <<ExtAtom, EmRefAtom>>
  /\ Len(lexer.tokens[1].tokens) = 3
  /\ lexer.tokens[1].tokens[1] = InlineToken("text", <<ExtAtom, "[">>, <<ExtAtom, "[">>)
  /\ lexer.tokens[1].tokens[2] = EmToken
  /\ lexer.tokens[1].tokens[3] = InlineToken("text", <<"]">>, <<"]">>)

\* every line of plain text of the item itself (not of a list nested in it)
\* stands inside a paragraph element (want) or outside one (~want)
RECURSIVE TextInParagraph(_, _, _, _)
TextInParagraph(o, inP, depth, want) ==
  IF o = <<>> THEN TRUE
  ELSE IF Head(o) = "<ul>\n" THEN TextInParagraph(Tail(o), inP, depth + 1, want)
  ELSE IF Head(o) = "</ul>\n" THEN TextInParagraph(Tail(o), inP, depth - 1, want)
  ELSE IF Head(o) = "<p>" THEN TextInParagraph(Tail(o), TRUE, depth, want)
  ELSE IF Head(o) = "</p>\n" THEN TextInParagraph(Tail(o), FALSE, depth, want)
  ELSE /\ (Head(o) = "a" /\ depth = 0) => (inP = want)
       /\ TextInParagraph(Tail(o), inP, depth, want)

\* C16: once a list is rendered, every line of text of every item of a loose
\* list stands in a paragraph element and every line of text of every item
\* of a tight list stands in none.
C16_LooseWrappedTightInline ==
  lpc = "done" =>
    \A k \in 1..Len(listOut) :
       TextInParagraph(listOut[k], FALSE, 0, listTok.loose)

\* every one of & < > " ' replaced by its entity
AllReplaced(text) == [i \in 1..Len(text) |-> Entity(text[i])]

\* C17 as stated: every & < > " ' of the text of a text token that is not
\* flagged escaped, and of a code block or code span, is replaced by its
\* entity in what the renderer returns.
C17_EveryOccurrenceEscaped ==
  epc = "done" =>
    /\ (escTok.type = "text" /\ ~escTok.escaped) =>
          escOut = AllReplaced(escTok.text)
    /\ (escTok.type = "code" /\ ~escTok.escaped) =>
          escOut = <<"<pre><code>">> \o AllReplaced(escTok.text)
                     \o <<"\n", "</code></pre>\n">>
    /\ (escTok.type = "codespan" /\ ~escTok.escaped) =>
          escOut = <<"<code>">> \o AllReplaced(escTok.text) \o <<"</code>">>

\* C17: in the text of a text token that is not flagged escaped every
\* < > " ' is replaced by its entity, and so is every & except one that
\* begins a character reference (&name; &#digits; &#xhex;), which is left
\* as it is; in a code block that is not flagged escaped and in every code
\* span every & < > " ' is replaced; the text of an escaped text token, of
\* an escaped code block and of a raw HTML token is not changed.
C17_EscapedExceptCharacterReferences ==
  epc = "done" =>
    /\ (escTok.type = "text" /\ ~escTok.escaped) =>
          /\ Len(escOut) = Len(escTok.text)
          /\ \A i \in 1..Len(escOut) :
                escOut[i] =
                  IF escTok.text[i] = "&"
                     /\ CharacterReference(SubSeq(escTok.text, i + 1, Len(escTok.text)))
                  THEN "&" ELSE Entity(escTok.text[i])
    /\ (escTok.type = "code" /\ ~escTok.escaped) =>
          escOut = <<"<pre><code>">> \o AllReplaced(escTok.text)
                     \o <<"\n", "</code></pre>\n">>
    /\ escTok.type = "codespan" =>
          escOut = <<"<code>">> \o AllReplaced(escTok.text) \o <<"</code>">>
    /\ (escTok.type = "text" /\ escTok.escaped) => escOut = escTok.text
    /\ (escTok.type = "code" /\ escTok.escaped) =>
          escOut = <<"<pre><code>">> \o escTok.text \o <<"\n", "</code></pre>\n">>
    /\ escTok.type = "html" => escOut = escTok.text

\* a text token with a character reference and a bare ampersand
C17_Witness ==
  /\ epc = "done"
  /\ escTok = [type |-> "text", text |-> <<"&", "a", ";", "&">>, escaped |-> FALSE]
  /\ escOut = <<"&", "a", ";", "&amp;">>

\* the override registered by the id-th call of use()
OverrideOf(id) == CHOOSE o \in {rchain[k] : k \in 1..Len(rchain)} : o.id = id

\* the latest registered override that does not return false, 0 (the
\* built-in method) when every override returns false
FirstHandling ==
  LET handling == {id \in 1..Len(rchain) : OverrideOf(id).ret # "false"}
  IN  IF handling = {} THEN 0
      ELSE CHOOSE id \in handling : \A j \in handling : j <= id

\* C19: a call of an overridden renderer method calls the overrides from the
\* latest registered to the earliest and then the built-in method, up to the
\* first that does not return false and no further; what the call returns
\* is what that implementation returned.
C19_RendererFallbackChain ==
  rpc = "done" =>
    /\ rcalls = [j \in 1..(Len(rchain) - FirstHandling + 1) |->
                   Len(rchain) + 1 - j]
    /\ rres = IF FirstHandling = 0 THEN "<hr>\n"
              ELSE Returned(OverrideOf(FirstHandling)).str

\* three overrides: the latest returns false, the second handles the token,
\* the first and the built-in method are not called
C19_Witness ==
  /\ rpc = "done"
  /\ Len(rchain) = 3
  /\ OverrideOf(3).ret = "false"
  /\ OverrideOf(2).ret = "html"
  /\ rcalls = <<3, 2>>
  /\ rres = Html(2)

\* the overrides registered for the hook of the stage
StageOverrides == {hchain[hname][k].id : k \in 1..Len(hchain[hname])}

\* C20: a stage calls every override registered for its hook exactly once,
\* the latest registered first; the first receives the input of the stage,
\* every other the value returned by the override called before it, and the
\* stage gives the value the last one returned.
C20_PassThroughChain ==
  hpc = "done" =>
    /\ Len(hcalls) = Cardinality(StageOverrides)
    /\ \A j \in 1..Len(hcalls) : hcalls[j].id \in StageOverrides
    /\ \A j, k \in 1..Len(hcalls) : j < k => hcalls[j].id > hcalls[k].id
    /\ hcalls # <<>> => hcalls[1].received = StageInput
    /\ \A j \in 1..(Len(hcalls) - 1) :
          hcalls[j + 1].received.from = hcalls[j].id
    /\ hres.from = IF hcalls = <<>> THEN 0 ELSE hcalls[Len(hcalls)].id

\* two overrides of one hook: the second registered is called first, the
\* first registered receives its value and gives the result of the stage
C20_Witness ==
  /\ hpc = "done"
  /\ Len(hchain[hname]) = 2
  /\ Len(hcalls) = 2
  /\ hcalls[1].id > hcalls[2].id
  /\ hcalls[2].received.from = hcalls[1].id
  /\ hres.from = hcalls[2].id


\* The objects of a token list with their places: the tokens (objects with a
\* type) and, with cells set, the cells of the tables as well.
RECURSIVE Objects(_, _, _)
Objects(t, p, cells) ==
  {p}
  \cup UNION {Objects(t.tokens[k], p \o <<Step("tokens", 0, 0, k)>>, cells) :
                k \in DOMAIN t.tokens}
  \cup UNION {Objects(t.items[k], p \o <<Step("items", 0, 0, k)>>, cells) :
                k \in DOMAIN t.items}
  \cup UNION {UNION {Objects(t.header[c].tokens[k],
                             p \o <<Step("header", 0, c, k)>>, cells) :
                       k \in DOMAIN t.header[c].tokens} :
                c \in DOMAIN t.header}
  \cup UNION {UNION {UNION {Objects(t.rows[r][c].tokens[k],
                                    p \o <<Step("rows", r, c, k)>>, cells) :
                              k \in DOMAIN t.rows[r][c].tokens} :
                       c \in DOMAIN t.rows[r]} :
                r \in DOMAIN t.rows}
  \cup (IF cells
        THEN {p \o <<Step("header", 0, c, 0)>> : c \in DOMAIN t.header}
             \cup UNION {{p \o <<Step("rows", r, c, 0)>> :
                            c \in DOMAIN t.rows[r]} : r \in DOMAIN t.rows}
        ELSE {})

TreeObjects(cells) ==
  UNION {Objects(wtree[k], <<Step("top", 0, 0, k)>>, cells) :
           k \in DOMAIN wtree}

VisitedOnce ==
  \A i, j \in DOMAIN wvisited : wvisited[i] = wvisited[j] => i = j

VisitedSet == {wvisited[i] : i \in DOMAIN wvisited}

Writes ==
  {i \in DOMAIN premote : premote[i].fn \in {"updatePage", "createPage"}}

Lookups == {i \in DOMAIN premote : premote[i].fn = "getPageByTitle"}

\* C22: in a run that finds no file at the path, the parser is never called,
\* no remote call is made (no lookup, no creation, no update), the exit code
\* is never 1, and the run ends with exit code 0.
C22_MissingFileSkips ==
  /\ [](ppc # "start" /\ ~pfs.exists
          => ~pparsed /\ premote = <<>> /\ pexit # "1")
  /\ (ppc = "exists" /\ ~pfs.exists) ~> (ppc = "end" /\ pexit = "0")

\* the run that found no file has ended
C22_Witness == ppc = "end" /\ ~pfs.exists /\ pexit = "0"


\* the lookup of the run has succeeded: a 2xx answer was read
LookupSucceeded == \E i \in Lookups : premote[i].ok

\* C23: in a run where the file exists and the lookup succeeds, a write call
\* is only made right after the successful lookup, at most one is made, it
\* is updatePage when the lookup found a page and createPage when it found
\* none, its body is the string marked.parse returned for the content of the
\* file, and one write call is eventually made.
C23_ExactlyOneWrite ==
  /\ [](/\ Cardinality(Writes) <= 1
        /\ \A i \in Writes :
             /\ i > 1
             /\ premote[i - 1].fn = "getPageByTitle"
             /\ premote[i - 1].ok
             /\ premote[i].fn = (IF premote[i - 1].answer.found
                                 THEN "updatePage" ELSE "createPage")
             /\ pfs.exists
             /\ ~MarkedParse(pfs.content).threw
             /\ premote[i].payload.body = MarkedParse(pfs.content).out)
  /\ (pfs.exists /\ LookupSucceeded) ~> (Cardinality(Writes) = 1)
  /\ [](ppc = "end" /\ LookupSucceeded => Cardinality(Writes) = 1)

\* a run has updated the page the lookup found, with a body that is not empty
C23_Witness ==
  /\ ppc = "end"
  /\ pexit = "0"
  /\ Len(premote) = 2
  /\ premote[1].answer.found
  /\ premote[2].fn = "updatePage"
  /\ premote[2].payload.body # <<>>

\* C24: once a remote call was answered with a status that is not 2xx, no
\* other remote call is made (no write after a failed lookup, no write
\* after a failed write), the exit code is never 0, and the run ends with
\* exit code 1.
C24_FailedCallEndsRun ==
  \A i \in DOMAIN premote :
    ~premote[i].ok =>
      /\ i = Len(premote)
      /\ ppc \in {"catch", "end"}
      /\ pexit # "0"
      /\ ppc = "end" => pexit = "1"

\* a run has ended after a lookup that failed
C24_Witness ==
  /\ ppc = "end"
  /\ pexit = "1"
  /\ Len(premote) = 1
  /\ premote[1].fn = "getPageByTitle"
  /\ ~premote[1].ok

\* C28: every call of updatePage follows the successful lookup of the run
\* and has the id and the version number of the page that lookup returned;
\* the payload it sends has that id and that number plus one; the payload
\* of createPage has no version.
C28_VersionIsLookupPlusOne ==
  \A i \in Writes :
    IF premote[i].fn = "updatePage"
    THEN /\ i > 1
         /\ premote[i - 1].fn = "getPageByTitle"
         /\ premote[i - 1].ok
         /\ premote[i - 1].answer.found
         /\ premote[i].pageId = premote[i - 1].answer.id
         /\ premote[i].currentVersion = premote[i - 1].answer.version
         /\ premote[i].payload.id = premote[i - 1].answer.id
         /\ premote[i].payload.hasVersion
         /\ premote[i].payload.version = premote[i - 1].answer.version + 1
    ELSE ~premote[i].payload.hasVersion

\* updatePage was called for a page the lookup found at its highest version
C28_Witness ==
  \E i \in Writes :
    /\ premote[i].fn = "updatePage"
    /\ premote[i].currentVersion = MaxVersion
    /\ premote[i].payload.version = MaxVersion + 1


GfmOnly(tok) == tok.type \in {"table", "del", "link"} \/ tok.task

\* C26: with pedantic and gfm both set, the Lexer has the pedantic block
\* table and the pedantic inline table, and its tokens hold no table, no
\* strikethrough, no link made of a bare URL and no task item.
C26_PedanticDisablesGfm ==
  dpc # "setup" /\ dopt.pedantic /\ dopt.gfm =>
    /\ drules = [block |-> "pedantic", inline |-> "pedantic"]
    /\ \A k \in DOMAIN dtokens :
         /\ ~GfmOnly(dtokens[k])
         /\ \A i \in DOMAIN dtokens[k].tokens : ~GfmOnly(dtokens[k].tokens[i])

\* a single newline of a paragraph gave a line-break token
NewlineIsBr(k) ==
  /\ Len(dtokens[k].tokens) = 3
  /\ dtokens[k].tokens[2].type = "br"

\* C27 as stated: with breaks set the Lexer has the breaks inline table, and
\* a single newline inside a paragraph gives a line-break token, whatever
\* gfm and pedantic are.
C27_BreaksWhateverGfmPedantic ==
  dpc # "setup" /\ dopt.breaks =>
    /\ drules.inline = "breaks"
    /\ dpc = "done" =>
         \A k \in DOMAIN dsrc : dsrc[k] = TwoLinesBlock => NewlineIsBr(k)

\* C27: with breaks and gfm set and pedantic unset the Lexer has the breaks
\* inline table, and a single newline inside a paragraph gives a line-break
\* token; with breaks set and pedantic set or gfm unset it has the pedantic
\* or the normal inline table, and the newline stays in the text token.
C27_BreaksNeedsGfm ==
  dpc # "setup" /\ dopt.breaks =>
    IF dopt.gfm /\ ~dopt.pedantic
    THEN /\ drules.inline = "breaks"
         /\ dpc = "done" =>
              \A k \in DOMAIN dsrc : dsrc[k] = TwoLinesBlock => NewlineIsBr(k)
    ELSE /\ drules.inline = (IF dopt.pedantic THEN "pedantic" ELSE "normal")
         /\ dpc = "done" =>
              \A k \in DOMAIN dsrc :
                dsrc[k] = TwoLinesBlock =>
                  /\ Len(dtokens[k].tokens) = 1
                  /\ dtokens[k].tokens[1].text = TwoLinesBlock

\* a Lexer with breaks and gfm set has made a line break of a single newline
C27_Witness ==
  /\ dpc = "done"
  /\ dopt.breaks /\ dopt.gfm /\ ~dopt.pedantic
  /\ \E k \in DOMAIN dsrc : dsrc[k] = TwoLinesBlock /\ NewlineIsBr(k)


\* C29: once Parser.parse has returned, the token list is as the Lexer
\* returned it (the tokens of the task items of loose and tight lists too),
\* and a second call on the same list returns what the first returned.
C29_RenderLeavesTokens ==
  touts # <<>> =>
    /\ ttok = ttok0
    /\ \A i \in DOMAIN touts : touts[i] = touts[1]


\* C30: while inlineTokens has a part of the label of a link of the text
\* left to tokenize, the part after a link or an image of the label too,
\* state.inLink is true; no child of a link is the link of a bare URL; and
\* the flag is false once the tokens of the text are made.
C30_InLinkThroughLabel ==
  /\ kdepth = 1 /\ klabel # <<>> => kinLink
  /\ \A i \in DOMAIN kchildren : kchildren[i].type # "autolink"
  /\ \A k \in DOMAIN ktokens :
       \A i \in DOMAIN ktokens[k].tokens : ktokens[k].tokens[i].type # "autolink"
  /\ kdepth = 0 /\ kpc = "done" => ~kinLink

====
